---- MODULE Spec2Model ----
(***************************************************************************)
(* Model of the dqx rule engine (databricks.labs.dqx): DQRule             *)
(* construction, DQEngineCore.apply_checks, apply_checks_and_split,       *)
(* get_valid and get_invalid.                                             *)
(*                                                                        *)
(* Spark values are modelled as options: the SQL NULL is the empty        *)
(* sequence <<>> and a non-null value v is <<v>>.  A map<string,string>   *)
(* column value is an insertion-ordered sequence of <<key, value>> pairs, *)
(* as Spark keeps it.  A DataFrame is a record of its schema (the column  *)
(* names in order) and its rows (functions from column name to value).    *)
(***************************************************************************)
EXTENDS Integers, Sequences, FiniteSets, TLC

VARIABLES df, checks, pc, ret, metadata, namespace, mpc, mret, files, cache,
          profiled, pret

vars == <<df, checks, pc, ret, metadata, namespace, mpc, mret, files, cache,
          profiled, pret>>

\* ---------------------------------------------------------------- bounds
MaxRows == 2
MaxRules == 2
MaxChecks == 2

\* ------------------------------------------------------- option encoding
None == <<>>
Some(x) == <<x>>
isNull(x) == x = None
isNotNull(x) == x # None

\* -------------------------------------------------------- input domains
\* SCHEMA of the test datasets, cut down to the two columns the rules and
\* the filter read.
Columns == {"a", "b"}
AValues == {None, Some(1)}
BValues == {None, Some(3), Some(4)}
Rows == [a : AValues, b : BValues]

CriticalityWARN == "warn"
CriticalityERROR == "error"
Criticality == {CriticalityWARN, CriticalityERROR}
\* criticality is a plain str field: any string can be passed
CriticalityStrings == Criticality \cup {"invalid"}

Filters == {None, Some("b>3")}

\* DefaultColumnNames; the engine is built without extra_params, so
\* self._column_names holds the defaults
DefaultColumnNamesERRORS == "_errors"
DefaultColumnNamesWARNINGS == "_warnings"

\* SCHEMA of the input dataset
SCHEMA == <<"a", "b">>

\* ------------------------------------------------------ check functions
\* is_not_null_and_not_empty(col_name): a Column whose value is the
\* message when the column is null (or empty) and NULL otherwise, aliased
\* <col_name>_is_null_or_empty.
is_not_null_and_not_empty_alias(col_name) == col_name \o "_is_null_or_empty"

is_not_null_and_not_empty(col_name, row) ==
    IF isNull(row[col_name])
    THEN Some("Column " \o col_name \o " is null or empty")
    ELSE None

\* custom_check_func_global(col_name) of the tests: "custom check failed"
\* when the column is null, aliased <col_name>_is_null_custom.
custom_check_func_global(col_name, row) ==
    IF isNull(row[col_name]) THEN Some("custom check failed") ELSE None

\* F.expr(filter) with a comparison with NULL taken to be true
expr_null_is_true(filter, row) ==
    IF filter = "b>3"
    THEN IF isNull(row.b) THEN Some(TRUE) ELSE Some(row.b[1] > 3)
    ELSE None

\* F.expr(filter) evaluated on a row: SQL three-valued logic, a comparison
\* with NULL is NULL.
expr(filter, row) ==
    IF filter = "b>3"
    THEN IF isNull(row.b) THEN None ELSE Some(row.b[1] > 3)
    ELSE None

\* F.when(cond, value).otherwise(other): value where cond is TRUE, other
\* where cond is FALSE or NULL.
when(cond, value, other) == IF cond = Some(TRUE) THEN value ELSE other

\* -------------------------------------------------------------- DQRule
\* DQRule._get_check evaluated on a row: check_func(col_name, **kwargs);
\* trim_strings makes no difference on the integer columns of the model.
_get_check(rule, row) ==
    IF rule.check_func = "custom_check_func_global"
    THEN custom_check_func_global(rule.col_name, row)
    ELSE is_not_null_and_not_empty(rule.col_name, row)

\* DQRule(...) with __post_init__: the name is kept when given, otherwise
\* it is "col_" + the alias of the check column.  Neither criticality nor
\* filter is read, so construction succeeds for every criticality string.
DQRule(col_name, name, criticality, filter) ==
    [check_func |-> "is_not_null_and_not_empty",
     col_name |-> col_name,
     name |-> IF name # "" THEN name
              ELSE "col_" \o is_not_null_and_not_empty_alias(col_name),
     criticality |-> criticality,
     filter |-> filter]

\* rule_criticality without its validation
rule_criticality_never_raises(rule) == FALSE

\* DQRule.rule_criticality: the criticality, or a ValueError naming it
rule_criticality_raises(rule) == rule.criticality \notin Criticality
rule_criticality_error(rule) ==
    "ValueError: Invalid criticality value: " \o rule.criticality
rule_criticality(rule) == rule.criticality

\* check_column that leaves the filter out
check_column_no_filter(rule, row) == _get_check(rule, row)

\* DQRule.check_column evaluated on a row.
check_column(rule, row) ==
    LET filter_col == IF rule.filter # None THEN expr(rule.filter[1], row)
                      ELSE Some(TRUE)
        check == _get_check(rule, row)
    IN  when(Some(isNotNull(check)), when(filter_col, check, None), None)

\* ------------------------------------------------------------- Spark
Range(s) == {s[i] : i \in 1..Len(s)}

\* df.select("*", F.lit(None).alias(name)): one more column, NULL on every row
select_star_null(d, name) ==
    [schema |-> Append(d.schema, name),
     rows |-> [i \in 1..Len(d.rows) |->
                 [c \in DOMAIN d.rows[i] \cup {name} |->
                    IF c = name THEN None ELSE d.rows[i][c]]]]

\* df.withColumn(name, col): the column is replaced when the schema has it
\* and put last otherwise; value[row] is the column's value on a row
withColumn(d, name, value) ==
    [schema |-> IF name \in Range(d.schema) THEN d.schema
                ELSE Append(d.schema, name),
     rows |-> [i \in 1..Len(d.rows) |->
                 [c \in DOMAIN d.rows[i] \cup {name} |->
                    IF c = name THEN value[d.rows[i]] ELSE d.rows[i][c]]]]

\* df.where(cond): the rows on which cond is true, order kept; cond[row] is
\* the condition's value on a row
where(d, cond) ==
    LET Test(r) == cond[r]
    IN  [schema |-> d.schema, rows |-> SelectSeq(d.rows, Test)]

\* df.drop(c1, c2)
drop(d, c1, c2) ==
    LET keep(c) == c \notin {c1, c2}
    IN  [schema |-> SelectSeq(d.schema, keep),
         rows |-> [i \in 1..Len(d.rows) |->
                     [c \in DOMAIN d.rows[i] \ {c1, c2} |-> d.rows[i][c]]]]

\* df.limit(0)
limit0(d) == [schema |-> d.schema, rows |-> <<>>]

\* F.map_from_arrays(F.array(*name_cols), F.array(*check_cols)) on one row
map_from_arrays(chks, row) ==
    [i \in 1..Len(chks) |-> <<chks[i].name, check_column(chks[i], row)>>]

\* Spark's map builder fails on a duplicate key
\* (spark.sql.mapKeyDedupPolicy = EXCEPTION, the default of a session)
map_from_arrays_raises(chks) ==
    \E i, j \in 1..Len(chks) : i # j /\ chks[i].name = chks[j].name

\* F.map_filter(m, lambda _, v: v.isNotNull())
map_filter(m) ==
    LET Test(e) == isNotNull(e[2])
    IN  SelectSeq(m, Test)

\* ------------------------------------------------------------- engine
\* DQEngineCore._get_check_columns raises when a rule_criticality raises:
\* the comprehension reads check.rule_criticality of every rule in order,
\* so the first offending rule is the one named.
_get_check_columns_raises(chks) ==
    IF \E i \in 1..Len(chks) : rule_criticality_raises(chks[i])
    THEN LET first == CHOOSE i \in 1..Len(chks) :
                        /\ rule_criticality_raises(chks[i])
                        /\ \A j \in 1..(i - 1) : ~rule_criticality_raises(chks[j])
         IN  rule_criticality_error(chks[first])
    ELSE ""

\* the rules of a tier taken column by column instead of in list order
_get_check_columns_by_column(chks, criticality) ==
    LET TestA(check) == rule_criticality(check) = criticality /\ check.col_name = "a"
        TestB(check) == rule_criticality(check) = criticality /\ check.col_name = "b"
    IN  SelectSeq(chks, TestA) \o SelectSeq(chks, TestB)

_get_check_columns(chks, criticality) ==
    LET Test(check) == rule_criticality(check) = criticality
    IN  SelectSeq(chks, Test)

\* DQEngineCore._append_empty_checks
_append_empty_checks(d) ==
    select_star_null(select_star_null(d, DefaultColumnNamesERRORS),
                     DefaultColumnNamesWARNINGS)

\* the filtered map stored as it is, also when it is empty
results_map_value_no_size_guard(chks, row) ==
    Some(map_filter(map_from_arrays(chks, row)))

\* the value of m_col / dest_col of _create_results_map on one row
results_map_value(chks, row) ==
    LET m_col == map_filter(map_from_arrays(chks, row))
    IN  when(Some(Len(m_col) > 0), Some(m_col), None)

\* a results map that keeps only the rows with an entry
_create_results_map_drop_clean(d, chks, dest_col) ==
    IF Len(chks) = 0 THEN select_star_null(d, dest_col)
    ELSE LET value == [row \in Range(d.rows) |->
                         when(Some(Len(map_filter(map_from_arrays(chks, row))) > 0),
                              Some(map_filter(map_from_arrays(chks, row))), None)]
             has == [row \in Range(d.rows) |-> isNotNull(value[row])]
         IN  withColumn(where(d, has), dest_col, value)

\* DQEngineCore._create_results_map
_create_results_map(d, chks, dest_col) ==
    IF Len(chks) = 0 THEN select_star_null(d, dest_col)
    ELSE LET value == [row \in Range(d.rows) |-> results_map_value(chks, row)]
         IN  withColumn(d, dest_col, value)

\* the dataset of _create_results_map fails, when Spark evaluates it, if
\* the map is built on some row with a duplicate key
_create_results_map_raises(d, chks) ==
    Len(d.rows) > 0 /\ map_from_arrays_raises(chks)

\* DQEngineCore.apply_checks: the dataset returned
apply_checks(d, chks) ==
    IF Len(chks) = 0 THEN _append_empty_checks(d)
    ELSE LET warning_checks == _get_check_columns(chks, CriticalityWARN)
             error_checks == _get_check_columns(chks, CriticalityERROR)
             ndf == _create_results_map(d, error_checks, DefaultColumnNamesERRORS)
         IN  _create_results_map(ndf, warning_checks, DefaultColumnNamesWARNINGS)

\* DQEngineCore.apply_checks: the exception it ends with, "" when none
apply_checks_raises(d, chks) ==
    IF Len(chks) = 0 THEN ""
    ELSE IF _get_check_columns_raises(chks) # "" THEN _get_check_columns_raises(chks)
    ELSE IF \/ _create_results_map_raises(d, _get_check_columns(chks, CriticalityERROR))
            \/ _create_results_map_raises(d, _get_check_columns(chks, CriticalityWARN))
         THEN "DUPLICATED_MAP_KEY"
    ELSE ""

\* get_invalid that looks at the warnings only
get_invalid_warnings_only(d) ==
    LET cond == [r \in Range(d.rows) |-> isNotNull(r[DefaultColumnNamesWARNINGS])]
    IN  where(d, cond)

\* DQEngineCore.get_invalid
get_invalid(d) ==
    LET cond == [r \in Range(d.rows) |-> \/ isNotNull(r[DefaultColumnNamesERRORS])
                                             \/ isNotNull(r[DefaultColumnNamesWARNINGS])]
    IN  where(d, cond)

\* get_valid that also asks for no warnings
get_valid_no_warnings(d) ==
    LET cond == [r \in Range(d.rows) |-> /\ isNull(r[DefaultColumnNamesERRORS])
                                             /\ isNull(r[DefaultColumnNamesWARNINGS])]
    IN  drop(where(d, cond), DefaultColumnNamesERRORS, DefaultColumnNamesWARNINGS)

\* get_valid that reads the warnings column in place of the errors column
get_valid_by_warnings(d) ==
    LET cond == [r \in Range(d.rows) |-> isNull(r[DefaultColumnNamesWARNINGS])]
    IN  drop(where(d, cond), DefaultColumnNamesERRORS, DefaultColumnNamesWARNINGS)

\* get_valid that keeps the result columns
get_valid_keep_columns(d) ==
    LET cond == [r \in Range(d.rows) |-> isNull(r[DefaultColumnNamesERRORS])]
    IN  where(d, cond)

\* DQEngineCore.get_valid
get_valid(d) ==
    LET cond == [r \in Range(d.rows) |-> isNull(r[DefaultColumnNamesERRORS])]
    IN  drop(where(d, cond), DefaultColumnNamesERRORS, DefaultColumnNamesWARNINGS)

\* apply_checks_and_split without the limit(0) of the empty case
apply_checks_and_split_no_limit(d, chks) ==
    IF Len(chks) = 0
    THEN [good |-> d, bad |-> _append_empty_checks(d)]
    ELSE LET checked_df == apply_checks(d, chks)
         IN  [good |-> get_valid(checked_df), bad |-> get_invalid(checked_df)]

\* DQEngineCore.apply_checks_and_split: the pair returned
apply_checks_and_split(d, chks) ==
    IF Len(chks) = 0
    THEN [good |-> d, bad |-> limit0(_append_empty_checks(d))]
    ELSE LET checked_df == apply_checks(d, chks)
         IN  [good |-> get_valid(checked_df), bad |-> get_invalid(checked_df)]

\* ===================================================================
\* Checks given as metadata: resolution, validation, build
\* ===================================================================
\* A Python value of a check definition is a tuple whose first element is
\* the name of its type; a dict is the sequence of its items in insertion
\* order, its keys being strings.
PyNone == <<"NoneType">>
PyStr(s) == <<"str", s>>
PyInt(n) == <<"int", n>>
PyBool(b) == <<"bool", b>>
PyList(xs) == <<"list", xs>>
PyDict(items) == <<"dict", items>>
PyFunction(name) == <<"function", name>>

type(v) == v[1]
isinstance(v, t) == type(v) = t \/ (t = "int" /\ type(v) = "bool")
callable(v) == type(v) = "function"
\* truth value of an object: None and empty containers are false
bool(v) ==
    CASE type(v) = "NoneType" -> FALSE
      [] type(v) \in {"list", "dict"} -> v[2] # <<>>
      [] type(v) = "str" -> v[2] # ""
      [] type(v) = "int" -> v[2] # 0
      [] type(v) = "bool" -> v[2]
      [] OTHER -> TRUE
hashable(v) == type(v) \notin {"list", "dict"}

\* key in d, d[key], d.get(key, default) for a str key
contains(d, key) == \E i \in 1..Len(d[2]) : d[2][i][1] = key
getitem(d, key) == d[2][CHOOSE i \in 1..Len(d[2]) : d[2][i][1] = key][2]
get(d, key, default) == IF contains(d, key) THEN getitem(d, key) ELSE default

\* ------------------------------------------------ function namespaces
\* the check functions the module col_functions defines, as far as the
\* checks of the model name them
col_functions == {"is_not_null_and_not_empty"}

\* the function of the tests that is not a built-in
custom_check_func_global_name == "custom_check_func_global"

\* inspect.signature(func).parameters: name, annotation and whether the
\* parameter has no default, in declaration order
signature(func) ==
    IF func = PyFunction("is_not_null_and_not_empty")
    THEN <<[name |-> "col_name", annotation |-> "str", required |-> TRUE],
           [name |-> "trim_strings", annotation |-> "bool", required |-> FALSE]>>
    ELSE <<[name |-> "col_name", annotation |-> "str", required |-> TRUE]>>

\* the glbs argument: left out (None), an empty mapping, the mapping of
\* the custom function alone, and globals() of the test module, which also
\* holds the imported built-in
GlbsCustomOnly ==
    PyDict(<<<<custom_check_func_global_name,
               PyFunction(custom_check_func_global_name)>>>>)
GlbsGlobals ==
    PyDict(<<<<"is_not_null_and_not_empty", PyFunction("is_not_null_and_not_empty")>>,
             <<custom_check_func_global_name,
               PyFunction(custom_check_func_global_name)>>>>)
GlbsValues == {PyNone, PyDict(<<>>), GlbsCustomOnly, GlbsGlobals}

\* getattr(col_functions, func_name[, None]): the attribute name must be a
\* str; a missing attribute is an AttributeError unless a default is given
getattr_raises(func_name, has_default) ==
    IF type(func_name) # "str"
    THEN "TypeError: attribute name must be string"
    ELSE IF func_name[2] \notin col_functions /\ ~has_default
         THEN "AttributeError: module has no attribute " \o func_name[2]
         ELSE ""
getattr(func_name) ==
    IF type(func_name) = "str" /\ func_name[2] \in col_functions
    THEN PyFunction(func_name[2])
    ELSE PyNone

\* glbs.get(func_name): the key is hashed before it is looked up
glbs_get_raises(glbs, func_name) ==
    IF hashable(func_name) THEN "" ELSE "TypeError: unhashable type"
glbs_get(glbs, func_name) ==
    IF type(func_name) = "str" THEN get(glbs, func_name[2], PyNone) ELSE PyNone

\* _resolve_function that falls back to col_functions for a name glbs lacks
_resolve_function_with_fallback(func_name, glbs, fail_on_missing) ==
    IF bool(glbs) /\ glbs_get(glbs, func_name) # PyNone
    THEN glbs_get(glbs, func_name)
    ELSE getattr(func_name)

\* DQEngineCore._resolve_function
_resolve_function(func_name, glbs, fail_on_missing) ==
    IF bool(glbs) THEN glbs_get(glbs, func_name) ELSE getattr(func_name)

_resolve_function_raises(func_name, glbs, fail_on_missing) ==
    IF bool(glbs) THEN glbs_get_raises(glbs, func_name)
    ELSE getattr_raises(func_name, ~fail_on_missing)

\* ------------------------------------------------------- validation
\* {k2: v2 for ...}: a dict built item by item, a repeated key keeps its
\* first position and takes the last value
RECURSIVE dict_items(_, _)
dict_items(items, acc) ==
    IF items = <<>> THEN acc
    ELSE LET key == Head(items)[1]
             has == \E i \in 1..Len(acc) : acc[i][1] = key
         IN  dict_items(Tail(items),
                        IF has
                        THEN [i \in 1..Len(acc) |->
                                IF acc[i][1] = key THEN Head(items) ELSE acc[i]]
                        ELSE Append(acc, Head(items)))

\* list(sig.parameters.keys()) as Python prints it
RECURSIVE join(_, _)
join(strs, sep) ==
    IF strs = <<>> THEN ""
    ELSE IF Len(strs) = 1 THEN strs[1]
    ELSE strs[1] \o sep \o join(Tail(strs), sep)
\* the expected arguments cut to the first parameter
expected_args_first(sig) == "['" \o sig[1].name \o "']"

\* list(sig.parameters.keys()) as the f-string prints it
expected_args(sig) ==
    "[" \o join([i \in 1..Len(sig) |-> "'" \o sig[i].name \o "'"], ", ") \o "]"

RECURSIVE extend(_)
extend(lists) ==
    IF lists = <<>> THEN <<>> ELSE Head(lists) \o extend(Tail(lists))

\* _validate_func_args that returns at the first error
_validate_func_args_first_error(arguments, func, check) ==
    LET sig == signature(func)
        parameters == {sig[i].name : i \in 1..Len(sig)}
        annotation(arg) == (CHOOSE i \in 1..Len(sig) : sig[i].name = arg)
        no_arguments ==
            IF ~bool(arguments) /\ Len(sig) > 0
            THEN <<<<"No arguments provided for function '" \o func[2]
                     \o "' in the 'arguments' block. Expected arguments are: "
                     \o expected_args(sig), check>>>>
            ELSE <<>>
        of_item(item) ==
            IF item[1] \notin parameters
            THEN <<<<"Unexpected argument '" \o item[1] \o "' for function '"
                     \o func[2] \o "' in the 'arguments' block. Expected arguments are: "
                     \o expected_args(sig), check>>>>
            ELSE IF ~isinstance(item[2], sig[annotation(item[1])].annotation)
                 THEN <<<<"Argument '" \o item[1] \o "' should be of type '"
                          \o sig[annotation(item[1])].annotation \o "' for function '"
                          \o func[2] \o "' in the 'arguments' block", check>>>>
                 ELSE <<>>
        errors == no_arguments \o extend([i \in 1..Len(arguments[2]) |-> of_item(arguments[2][i])])
    IN  IF errors = <<>> THEN <<>> ELSE <<errors[1]>>

\* An error message is the pair of the text of the f-string and the check
\* definition it prints after it.
\* DQEngineCore._validate_func_args
_validate_func_args(arguments, func, check) ==
    LET sig == signature(func)
        parameters == {sig[i].name : i \in 1..Len(sig)}
        annotation(arg) == (CHOOSE i \in 1..Len(sig) : sig[i].name = arg)
        no_arguments ==
            IF ~bool(arguments) /\ Len(sig) > 0
            THEN <<<<"No arguments provided for function '" \o func[2]
                     \o "' in the 'arguments' block. Expected arguments are: "
                     \o expected_args(sig), check>>>>
            ELSE <<>>
        of_item(item) ==
            IF item[1] \notin parameters
            THEN <<<<"Unexpected argument '" \o item[1] \o "' for function '"
                     \o func[2] \o "' in the 'arguments' block. Expected arguments are: "
                     \o expected_args(sig), check>>>>
            ELSE IF ~isinstance(item[2], sig[annotation(item[1])].annotation)
                 THEN <<<<"Argument '" \o item[1] \o "' should be of type '"
                          \o sig[annotation(item[1])].annotation \o "' for function '"
                          \o func[2] \o "' in the 'arguments' block", check>>>>
                 ELSE <<>>
    IN  no_arguments \o extend([i \in 1..Len(arguments[2]) |-> of_item(arguments[2][i])])

\* _validate_check_function_arguments that validates col_names as it
\* stands, like any other argument
_validate_check_function_arguments_as_given(arguments, func, check) ==
    IF ~isinstance(arguments, "dict")
    THEN <<<<"'arguments' should be a dictionary in the 'check' block", check>>>>
    ELSE _validate_func_args(arguments, func, check)

\* DQEngineCore._validate_check_function_arguments
_validate_check_function_arguments(arguments, func, check) ==
    IF ~isinstance(arguments, "dict")
    THEN <<<<"'arguments' should be a dictionary in the 'check' block", check>>>>
    ELSE IF contains(arguments, "col_names")
    THEN IF ~isinstance(getitem(arguments, "col_names"), "list")
         THEN <<<<"'col_names' should be a list in the 'arguments' block", check>>>>
         ELSE IF Len(getitem(arguments, "col_names")[2]) = 0
         THEN <<<<"'col_names' should not be empty in the 'arguments' block", check>>>>
         ELSE LET renamed ==
                      [i \in 1..Len(arguments[2]) |->
                         IF arguments[2][i][1] = "col_names"
                         THEN <<"col_name", getitem(arguments, "col_names")[2][1]>>
                         ELSE arguments[2][i]]
              IN  _validate_func_args(PyDict(dict_items(renamed, <<>>)), func, check)
    ELSE _validate_func_args(arguments, func, check)

\* DQEngineCore._validate_check_block
_validate_check_block(check, glbs) ==
    LET check_block == getitem(check, "check")
        func_name == getitem(check_block, "function")
        func == _resolve_function(func_name, glbs, FALSE)
        arguments == get(check_block, "arguments", PyDict(<<>>))
    IN  IF ~contains(check_block, "function")
        THEN <<<<"'function' field is missing in the 'check' block", check>>>>
        ELSE IF ~callable(func)
        THEN <<<<"function is not defined", func_name, check>>>>
        ELSE _validate_check_function_arguments(arguments, func, check)

_validate_check_block_raises(check, glbs) ==
    LET check_block == getitem(check, "check")
    IN  IF ~contains(check_block, "function") THEN ""
        ELSE _resolve_function_raises(getitem(check_block, "function"), glbs, FALSE)

\* DQEngineCore._validate_checks_dict
_validate_checks_dict(check, glbs) ==
    LET criticality ==
            IF contains(check, "criticality")
               /\ getitem(check, "criticality") \notin {PyStr(c) : c \in Criticality}
            THEN <<<<"Invalid value for 'criticality' field", check>>>>
            ELSE <<>>
        block ==
            IF ~contains(check, "check")
            THEN <<<<"'check' field is missing", check>>>>
            ELSE IF ~isinstance(getitem(check, "check"), "dict")
            THEN <<<<"'check' field should be a dictionary", check>>>>
            ELSE _validate_check_block(check, glbs)
    IN  criticality \o block

_validate_checks_dict_raises(check, glbs) ==
    IF contains(check, "check") /\ isinstance(getitem(check, "check"), "dict")
    THEN _validate_check_block_raises(check, glbs)
    ELSE ""

\* what validate_checks adds to the status for one element of the list
validate_check(check, glbs) ==
    IF isinstance(check, "dict") THEN _validate_checks_dict(check, glbs)
    ELSE <<<<"Unsupported check type: <class '" \o type(check) \o "'>">>>>

validate_check_raises(check, glbs) ==
    IF isinstance(check, "dict") THEN _validate_checks_dict_raises(check, glbs)
    ELSE ""

\* DQEngineCore.validate_checks: the errors of the status it returns
validate_checks(chks, glbs) ==
    extend([i \in 1..Len(chks) |-> validate_check(chks[i], glbs)])

\* the exception validate_checks ends with, "" when it returns: that of
\* the first definition whose function lookup raises
validate_checks_raises(chks, glbs) ==
    LET raising == {i \in 1..Len(chks) : validate_check_raises(chks[i], glbs) # ""}
    IN  IF raising = {} THEN ""
        ELSE validate_check_raises(
                 chks[CHOOSE i \in raising : \A j \in raising : i <= j], glbs)

\* ChecksValidationStatus.has_errors and to_string: the lines of the text
has_errors(errors) == errors # <<>>
to_string(errors) == IF has_errors(errors) THEN errors ELSE <<<<"No errors found">>>>

\* ------------------------------------------------------------ build
\* a call that binds whatever the arguments
call_raises_never(func, args, kwargs) == ""

\* func(*args, **kwargs): the TypeError of binding the arguments to the
\* parameters of the signature, "" when they bind
call_raises(func, args, kwargs) ==
    LET sig == signature(func)
        positional == {sig[i].name : i \in 1..Len(sig) \cap 1..Len(args)}
        parameters == {sig[i].name : i \in 1..Len(sig)}
        given == positional \cup {kwargs[2][i][1] : i \in 1..Len(kwargs[2])}
    IN  IF Len(args) > Len(sig)
        THEN "TypeError: too many positional arguments"
        ELSE IF \E i \in 1..Len(kwargs[2]) : kwargs[2][i][1] \notin parameters
        THEN "TypeError: got an unexpected keyword argument"
        ELSE IF \E i \in 1..Len(kwargs[2]) : kwargs[2][i][1] \in positional
        THEN "TypeError: got multiple values for argument"
        ELSE IF \E i \in 1..Len(sig) : sig[i].required /\ sig[i].name \notin given
        THEN "TypeError: missing a required positional argument"
        ELSE ""

\* the alias of the Column a check function returns
get_column_name(check_func, col_name) ==
    IF check_func = "is_not_null_and_not_empty"
    THEN is_not_null_and_not_empty_alias(col_name)
    ELSE col_name \o "_is_null_custom"

\* DQRule(check_func=..., col_name=..., ...) as DQRuleColSet.get_rules
\* constructs it; __post_init__ calls check_func(col_name, **kwargs)
DQRule_raises(check_func, col_name, check_func_kwargs) ==
    call_raises(PyFunction(check_func), <<col_name>>, check_func_kwargs)

DQRule_with(check_func, col_name, name, criticality, filter, check_func_kwargs) ==
    [check_func |-> check_func,
     col_name |-> col_name,
     name |-> IF name # "" THEN name
              ELSE "col_" \o get_column_name(check_func, col_name),
     criticality |-> criticality,
     filter |-> filter,
     check_func_kwargs |-> check_func_kwargs]

\* DQRuleColSet(...).get_rules(): one rule per column, in column order
get_rules(columns, check_func, name, criticality, filter, check_func_kwargs) ==
    [i \in 1..Len(columns) |->
        DQRule_with(check_func, columns[i][2], name, criticality, filter,
                    check_func_kwargs)]

get_rules_raises(columns, check_func, check_func_kwargs) ==
    LET raising == {i \in 1..Len(columns) :
                      DQRule_raises(check_func, columns[i][2], check_func_kwargs) # ""}
    IN  IF raising = {} THEN ""
        ELSE DQRule_raises(check_func, columns[CHOOSE i \in raising : \A j \in raising : i <= j][2],
                           check_func_kwargs)

\* DQRule(check=check_func, name=..., criticality=..., filter=...): the
\* dataclass has no field named check
DQRule_check_raises ==
    "TypeError: DQRule.__init__() got an unexpected keyword argument 'check'"

\* the body of the loop of build_checks_by_metadata for one definition of
\* a list that passed validation
build_check_def(check_def, glbs) ==
    LET check == get(check_def, "check", PyDict(<<>>))
        func == _resolve_function(get(check, "function", PyNone), glbs, TRUE)
        func_args == get(check, "arguments", PyDict(<<>>))
        criticality == get(check_def, "criticality", PyStr("error"))[2]
        filter_expr == IF contains(check_def, "filter")
                       THEN Some(getitem(check_def, "filter")[2]) ELSE None
        without_col_names(item) == item[1] # "col_names"
    IN  IF contains(func_args, "col_names")
        THEN get_rules(getitem(func_args, "col_names")[2], func[2], "", criticality,
                       filter_expr, PyDict(SelectSeq(func_args[2], without_col_names)))
        ELSE <<>>

build_check_def_raises(check_def, glbs) ==
    LET check == get(check_def, "check", PyDict(<<>>))
        func == _resolve_function(get(check, "function", PyNone), glbs, TRUE)
        func_args == get(check, "arguments", PyDict(<<>>))
        without_col_names(item) == item[1] # "col_names"
    IN  IF contains(func_args, "col_names")
        THEN get_rules_raises(getitem(func_args, "col_names")[2], func[2],
                              PyDict(SelectSeq(func_args[2], without_col_names)))
        ELSE IF call_raises(func, <<>>, func_args) # ""
        THEN call_raises(func, <<>>, func_args)
        ELSE DQRule_check_raises

\* DQEngineCore.build_checks_by_metadata: the rule list it returns
build_checks_by_metadata(chks, glbs) ==
    extend([i \in 1..Len(chks) |-> build_check_def(chks[i], glbs)])

\* build_checks_by_metadata raising with the first error alone
build_checks_by_metadata_raises_first_error(chks, glbs) ==
    LET status == validate_checks(chks, glbs)
    IN  IF validate_checks_raises(chks, glbs) # ""
        THEN [raised |-> validate_checks_raises(chks, glbs), message |-> <<>>]
        ELSE IF has_errors(status)
        THEN [raised |-> "ValueError", message |-> <<status[1]>>]
        ELSE [raised |-> "", message |-> <<>>]

\* the exception build_checks_by_metadata ends with ("" when it returns)
\* and the lines of the text the exception carries
build_checks_by_metadata_raises(chks, glbs) ==
    LET status == validate_checks(chks, glbs)
        raising == {i \in 1..Len(chks) : build_check_def_raises(chks[i], glbs) # ""}
    IN  IF validate_checks_raises(chks, glbs) # ""
        THEN [raised |-> validate_checks_raises(chks, glbs), message |-> <<>>]
        ELSE IF has_errors(status)
        THEN [raised |-> "ValueError", message |-> to_string(status)]
        ELSE IF raising # {}
        THEN [raised |->
                 build_check_def_raises(
                     chks[CHOOSE i \in raising : \A j \in raising : i <= j], glbs),
              message |-> <<>>]
        ELSE [raised |-> "", message |-> <<>>]

\* DQEngineCore.apply_checks_by_metadata
apply_checks_by_metadata(d, chks, glbs) ==
    apply_checks(d, build_checks_by_metadata(chks, glbs))

apply_checks_by_metadata_raises(d, chks, glbs) ==
    IF build_checks_by_metadata_raises(chks, glbs).raised # ""
    THEN build_checks_by_metadata_raises(chks, glbs).raised
    ELSE apply_checks_raises(d, build_checks_by_metadata(chks, glbs))

\* --------------------------------------------- check definitions given
\* A check definition with the fields in the order the tests write them;
\* a field given as None is left out.
check_block(function, arguments) ==
    PyDict((IF function = None THEN <<>> ELSE <<<<"function", function[1]>>>>)
           \o (IF arguments = None THEN <<>> ELSE <<<<"arguments", arguments[1]>>>>))
check_def(criticality, check, filter) ==
    PyDict((IF criticality = None THEN <<>>
            ELSE <<<<"criticality", PyStr(criticality[1])>>>>)
           \o (IF check = None THEN <<>> ELSE <<<<"check", check[1]>>>>)
           \o (IF filter = None THEN <<>> ELSE <<<<"filter", PyStr(filter[1])>>>>))

col_name_of(c) == PyDict(<<<<"col_name", PyStr(c)>>>>)
col_names_of(cs) == PyDict(<<<<"col_names", PyList([i \in 1..Len(cs) |-> PyStr(cs[i])])>>>>)
builtin_function == Some(PyStr("is_not_null_and_not_empty"))
custom_function == Some(PyStr(custom_check_func_global_name))
on_column(criticality, function, arguments, filter) ==
    check_def(criticality, Some(check_block(function, Some(arguments))), filter)

\* definitions the validation accepts: one column or a list of columns,
\* built-in or custom function, criticality given or left out, with and
\* without a filter
SingleColumnDefs ==
    {on_column(Some("warn"), builtin_function, col_name_of("a"), None),
     on_column(Some("warn"), custom_function, col_name_of("a"), None),
     on_column(None, builtin_function, col_name_of("a"), None),
     on_column(None, builtin_function, col_name_of("b"), None),
     on_column(Some("error"), builtin_function, col_name_of("a"), Some("b>3"))}
ColNamesDefs ==
    {on_column(None, builtin_function, col_names_of(<<"a", "b">>), None),
     on_column(Some("error"), builtin_function, col_names_of(<<"a">>), Some("b>3")),
     on_column(Some("warn"), builtin_function, col_names_of(<<"a">>), None),
     on_column(Some("warn"), custom_function, col_names_of(<<"a">>), None),
     on_column(Some("warn"), builtin_function,
               PyDict(<<<<"col_names", PyList(<<PyStr("b"), PyStr("a")>>)>>,
                        <<"trim_strings", PyBool(TRUE)>>>>), None)}
\* non-empty arguments that leave out the required col_name
MissingRequiredDefs ==
    {on_column(Some("error"), builtin_function,
               PyDict(<<<<"trim_strings", PyBool(TRUE)>>>>), None)}

\* definitions with one mistake each, and one with two
NotADict == PyStr("is_not_null_and_not_empty")
InvalidCriticalityDef ==
    on_column(Some("invalid"), builtin_function, col_name_of("a"), None)
CheckMissingDef == check_def(Some("error"), None, None)
CheckNotADictDef == check_def(Some("error"), Some(PyStr("is_not_null")), None)
FunctionMissingDef ==
    check_def(None, Some(check_block(None, Some(col_name_of("a")))), None)
FunctionNotDefinedDef ==
    on_column(None, Some(PyStr("function_does_not_exists")), col_name_of("a"), None)
ArgumentsNotADictDef ==
    on_column(None, builtin_function, PyList(<<PyStr("a")>>), None)
NoArgumentsDef ==
    check_def(Some("error"), Some(check_block(builtin_function, None)), None)
WrongTypeDef ==
    on_column(None, builtin_function, PyDict(<<<<"col_name", PyInt(1)>>>>), None)
UnexpectedArgumentDef ==
    on_column(None, builtin_function,
              PyDict(<<<<"col_name", PyStr("a")>>, <<"column", PyStr("b")>>>>), None)
TwoOffendingArgumentsDef ==
    on_column(None, builtin_function,
              PyDict(<<<<"column", PyStr("a")>>, <<"col_name", PyInt(1)>>>>), None)
ColNamesNotAListDef ==
    on_column(None, builtin_function, PyDict(<<<<"col_names", PyStr("a")>>>>), None)
ColNamesEmptyDef ==
    on_column(None, builtin_function, PyDict(<<<<"col_names", PyList(<<>>)>>>>), None)
InvalidCriticalityCheckMissingDef == check_def(Some("invalid"), None, None)
InvalidDefs ==
    {NotADict, InvalidCriticalityDef, CheckMissingDef, CheckNotADictDef,
     FunctionMissingDef, FunctionNotDefinedDef, ArgumentsNotADictDef,
     NoArgumentsDef, WrongTypeDef, UnexpectedArgumentDef,
     TwoOffendingArgumentsDef, ColNamesNotAListDef, ColNamesEmptyDef,
     InvalidCriticalityCheckMissingDef,
     \* an empty arguments mapping; col_names whose first element is a number
     on_column(Some("warn"), builtin_function, PyDict(<<>>), None),
     on_column(None, builtin_function,
               PyDict(<<<<"col_names", PyList(<<PyInt(1), PyStr("a")>>)>>>>), None)}

\* a function value that is not a name: a number, a list
FunctionIsNumberDef == on_column(None, Some(PyInt(123)), col_name_of("a"), None)
FunctionIsListDef ==
    on_column(None, Some(PyList(<<PyStr("is_not_null_and_not_empty")>>)),
              col_name_of("a"), None)
FunctionNotANameDefs == {FunctionIsNumberDef, FunctionIsListDef}

CheckDefs ==
    SingleColumnDefs \cup ColNamesDefs \cup MissingRequiredDefs
        \cup InvalidDefs \cup FunctionNotANameDefs

\* names given to _resolve_function
FunctionNames ==
    {PyStr("is_not_null_and_not_empty"), PyStr(custom_check_func_global_name),
     PyStr("function_does_not_exists"), PyInt(123)}

\* the dataset the checks given as metadata are applied to
TestDf ==
    [schema |-> SCHEMA,
     rows |-> <<[a |-> None, b |-> Some(4)], [a |-> Some(1), b |-> None]>>]

\* ===================================================================
\* Checks in a local file
\* ===================================================================
\* The keys of the check definitions in the order yaml.safe_dump writes
\* the keys of a mapping (sort_keys is on by default).
SortedKeys ==
    <<"arguments", "check", "col_name", "col_names", "column", "criticality",
      "filter", "function", "name", "trim_strings">>
key_rank(k) == CHOOSE i \in 1..Len(SortedKeys) : SortedKeys[i] = k
sorted_items(items) ==
    [i \in 1..Len(items) |->
        items[CHOOSE j \in 1..Len(items) :
                 Cardinality({l \in 1..Len(items) :
                                 key_rank(items[l][1]) < key_rank(items[j][1])}) = i - 1]]

\* yaml.safe_dump(checks, file): the document written, every mapping with
\* its keys sorted
RECURSIVE yaml_safe_dump(_)
yaml_safe_dump(v) ==
    IF type(v) = "dict"
    THEN LET items == sorted_items(v[2])
         IN  PyDict([i \in 1..Len(items) |-> <<items[i][1], yaml_safe_dump(items[i][2])>>])
    ELSE IF type(v) = "list"
    THEN PyList([i \in 1..Len(v[2]) |-> yaml_safe_dump(v[2][i])])
    ELSE v

\* str(value): a str stays, another value becomes the str of its repr
str(v) == IF type(v) = "str" THEN v ELSE <<"repr", v>>

\* Installation.load_local(list[dict[str, str]], path): the document read
\* back with every value of every mapping of the list converted to str
load_local_raises(document) ==
    IF type(document) # "list" \/ \E i \in 1..Len(document[2]) : type(document[2][i]) # "dict"
    THEN "SerdeError"
    ELSE ""
load_local(document) ==
    PyList([i \in 1..Len(document[2]) |->
              PyDict([j \in 1..Len(document[2][i][2]) |->
                        <<document[2][i][2][j][1], str(document[2][i][2][j][2])>>])])

\* deserialize_dicts: a str that holds the repr of a dict is evaluated back
\* to the dict, inside dicts too
RECURSIVE parse_nested_fields(_)
parse_nested_fields(obj) ==
    IF type(obj) = "repr" /\ type(obj[2]) = "dict"
    THEN parse_nested_fields(obj[2])
    ELSE IF type(obj) = "dict"
    THEN PyDict([i \in 1..Len(obj[2]) |->
                   <<obj[2][i][1], parse_nested_fields(obj[2][i][2])>>])
    ELSE obj
deserialize_dicts(chks) ==
    PyList([i \in 1..Len(chks[2]) |-> parse_nested_fields(chks[2][i])])

\* the local files: a path has no file (None) or the document written
Paths == {"", "checks.yml"}
NoFiles == [p \in Paths \ {""} |-> None]

\* DQEngineCore.save_checks_in_local_file(checks, filepath): the exception
\* and the files after the call
save_checks_in_local_file_raises(filepath) ==
    IF filepath = "" THEN "ValueError: filepath must be provided" ELSE ""
save_checks_in_local_file(chks, filepath, fs) ==
    IF save_checks_in_local_file_raises(filepath) # "" THEN fs
    ELSE [fs EXCEPT ![filepath] = Some(yaml_safe_dump(PyList(chks)))]

\* load_checks_from_local_file that returns what load_local gives
load_checks_from_local_file_no_deserialize(filepath, fs) ==
    load_local(fs[filepath][1])

\* DQEngineCore.load_checks_from_local_file(filepath)
load_checks_from_local_file(filepath, fs) ==
    deserialize_dicts(load_local(fs[filepath][1]))
load_checks_from_local_file_raises(filepath, fs) ==
    IF filepath = "" THEN "ValueError: filepath must be provided"
    ELSE IF fs[filepath] = None
    THEN "FileNotFoundError: Checks file " \o filepath \o " missing"
    ELSE load_local_raises(fs[filepath][1])

\* DQEngine.load_checks_from_local_file(filepath): an empty result is an error
DQEngine_load_checks_from_local_file_raises(filepath, fs) ==
    IF load_checks_from_local_file_raises(filepath, fs) # ""
    THEN load_checks_from_local_file_raises(filepath, fs)
    ELSE IF ~bool(load_checks_from_local_file(filepath, fs))
    THEN "ValueError: Invalid or no checks in file: " \o filepath
    ELSE ""

\* ===================================================================
\* Profiler (profiler/profiler.py)
\* ===================================================================
\* Numbers of a profiled column, and the statistics computed from them,
\* are kept in tenths: the integer n stands for n / Scale.  A statistic
\* that is not a whole number of tenths is cut to the tenth below.
Scale == 10

\* math.floor and math.ceil of a number kept in tenths
floor(value) == (value \div Scale) * Scale
ceil(value) == -(((-value) \div Scale) * Scale)

\* Python's truth value of a limit: None and 0 are false
truthy(value) == value # None /\ value[1] # 0

\* opts.get(key, default)
opts_get(opts, key, default) == IF key \in DOMAIN opts THEN opts[key] ELSE default

\* {**default_profile_options, **opts}
merge(defaults, opts) ==
    [key \in DOMAIN defaults \cup DOMAIN opts |->
        IF key \in DOMAIN opts THEN opts[key] ELSE defaults[key]]

\* the options that the range rule reads (the other keys belong to the
\* is_not_null, is_in and is_not_null_or_empty rules)
default_profile_options ==
    [round |-> TRUE, remove_outliers |-> TRUE, outlier_columns |-> <<>>,
     num_sigmas |-> 3]

\* round_value that goes one whole number past the value
round_value_past(value, direction, opts) ==
    IF value = None THEN value
    ELSE IF direction = "down" THEN Some(floor(value[1]) - Scale)
    ELSE Some(ceil(value[1]) + Scale)

\* round_value(value, direction, opts) for a number (float or int): the
\* value is an option, None when there is no value
round_value(value, direction, opts) ==
    IF ~truthy(value) \/ ~opts_get(opts, "round", FALSE) THEN value
    ELSE IF direction = "down" THEN Some(floor(value[1]))
    ELSE IF direction = "up" THEN Some(ceil(value[1]))
    ELSE value

\* ------------------------------------------------------- aggregates
RECURSIVE sum(_)
sum(values) ==
    IF values = <<>> THEN 0
    ELSE IF Len(values) = 1 THEN values[1]
    ELSE LET half == Len(values) \div 2
         IN  sum(SubSeq(values, 1, half)) + sum(SubSeq(values, half + 1, Len(values)))

\* the largest s in lo..hi with s * s <= x
RECURSIVE isqrt(_, _, _)
isqrt(lo, hi, x) ==
    IF lo = hi THEN lo
    ELSE LET mid == (lo + hi + 1) \div 2
         IN  IF mid * mid <= x THEN isqrt(mid, hi, x) ELSE isqrt(lo, mid - 1, x)

\* F.stddev of a column given as the sequence of its non-null values,
\* which are whole numbers (1 or 1.0): the sample standard deviation, in
\* tenths, null for a single value.
\* the sample variance is (Q - S * S / n) / (n - 1); it is computed in
\* hundredths, whole part and remainder apart, so that no product leaves
\* the 32-bit integers
F_stddev(values) ==
    LET n == Len(values)
        S == sum(values)
        Q == sum([i \in 1..n |-> values[i] * values[i]])
        X == Q - ((S * S) \div n)
        r == (S * S) % n
        variance == (X \div (n - 1)) * Scale * Scale
                    + (((X % (n - 1)) * Scale * Scale * n - Scale * Scale * r)
                          \div (n * (n - 1)))
    IN  IF n < 2 THEN None ELSE Some(isqrt(0, 46340, variance))

\* dst.agg(F.min, F.max, F.mean, F.stddev).collect()[0], in tenths: a
\* column with no value aggregates to nulls
agg(values) ==
    LET value == {values[i] : i \in 1..Len(values)}
    IN  IF values = <<>>
        THEN [min |-> None, max |-> None, avg |-> None, stddev |-> None]
        ELSE [min |-> Some(Scale * (CHOOSE v \in value : \A w \in value : v <= w)),
              max |-> Some(Scale * (CHOOSE v \in value : \A w \in value : v >= w)),
              avg |-> Some((sum(values) * Scale) \div Len(values)),
              stddev |-> F_stddev(values)]

\* ---------------------------------------------------------- range rule
\* the if / elif chain of get_min_max with the comparisons not strict
branch_not_strict(lo, hi, mn, mx) ==
    IF lo >= mn /\ hi <= mx THEN 1
    ELSE IF lo <= mn /\ hi >= mx THEN 2
    ELSE IF lo <= mn THEN 3
    ELSE 4

\* the branch that the if / elif chain of get_min_max takes for the
\* capped interval lo..hi and the real range mn..mx, 0 when it takes none
branch(lo, hi, mn, mx) ==
    IF lo > mn /\ hi < mx THEN 1
    ELSE IF lo < mn /\ hi > mx THEN 2
    ELSE IF lo < mn THEN 3
    ELSE IF hi > mx THEN 4
    ELSE 0

\* get_min_max that takes the real minimum and maximum whatever the branch
get_min_max_real(mn_mx, opts, typ) ==
    [descr |-> Some(<<"Real min/max values were used">>),
     max_limit |-> mn_mx.max, min_limit |-> mn_mx.min]

\* get_min_max(col_name, descr, max_limit, metrics, min_limit, mn_mx, opts,
\* typ) with descr, max_limit and min_limit None as extract_min_max passes
\* them; mn_mx is the one row collected.  A description is its text and
\* the values that the f-string puts into it.
get_min_max(mn_mx, opts, typ) ==
    LET sigmas == opts_get(opts, "sigmas", 3)
        avg == mn_mx.avg
        stddev == mn_mx.stddev
        mn == mn_mx.min[1]
        mx == mn_mx.max[1]
        lo == avg[1] - sigmas * stddev[1]
        hi == avg[1] + sigmas * stddev[1]
        taken == branch(lo, hi, mn, mx)
        min_limit == IF taken \in {2, 3} THEN mn ELSE lo
        max_limit == IF taken \in {2, 4} THEN mx ELSE hi
        descr ==
            CASE taken = 1 ->
                   Some(<<"Range doesn't include outliers, capped by {sigmas} sigmas. avg={avg}, stddev={stddev}, min={min}, max={max}",
                          sigmas, avg[1], stddev[1], mn, mx>>)
              [] taken = 2 -> Some(<<"Real min/max values were used">>)
              [] taken = 3 ->
                   Some(<<"Real min value was used. Max was capped by {sigmas} sigmas. avg={avg}, stddev={stddev}, max={max}",
                          sigmas, avg[1], stddev[1], mx>>)
              [] taken = 4 ->
                   Some(<<"Real max value was used. Min was capped by {sigmas} sigmas. avg={avg}, stddev={stddev}, min={min}",
                          sigmas, avg[1], stddev[1], mn>>)
              [] OTHER -> None
    IN  IF avg = None \/ stddev = None
        THEN [descr |-> None, max_limit |-> None, min_limit |-> None]
        ELSE IF typ = "IntegerType"
        THEN [descr |-> descr,
              max_limit |-> round_value(Some(max_limit), "up", [round |-> TRUE]),
              min_limit |-> round_value(Some(min_limit), "down", [round |-> TRUE])]
        ELSE [descr |-> descr, max_limit |-> Some(max_limit), min_limit |-> Some(min_limit)]

\* the test of extract_min_max that outliers are to be removed from the
\* column
detect_outliers(col_name, opts) ==
    LET outlier_cols == opts_get(opts, "outlier_columns", <<>>)
    IN  /\ opts_get(opts, "remove_outliers", TRUE)
        /\ \/ Len(outlier_cols) = 0
           \/ \E i \in 1..Len(outlier_cols) : outlier_cols[i] = col_name

\* extract_min_max(dst, col_name, typ, metrics, opts): the DQProfile or
\* None; dst is the column without its nulls
extract_min_max(dst, col_name, typ, opts) ==
    LET mn_mx == agg(dst)
        limits ==
            IF detect_outliers(col_name, opts)
            THEN get_min_max(mn_mx, opts, typ)
            ELSE [descr |-> Some(<<"Real min/max values were used">>),
                  max_limit |-> round_value(mn_mx.max, "up", opts),
                  min_limit |-> round_value(mn_mx.min, "down", opts)]
    IN  IF limits.descr # None /\ truthy(limits.min_limit) /\ truthy(limits.max_limit)
        THEN Some([name |-> "min_max", column |-> col_name,
                   parameters |-> [min |-> limits.min_limit[1], max |-> limits.max_limit[1]],
                   description |-> limits.descr[1]])
        ELSE None

\* profile(df, cols, opts) for a dataset of one column without nulls: the
\* candidate rules of kind min_max
profile(dst, col_name, typ, opts) ==
    IF Len(dst) = 0 THEN <<>>
    ELSE LET rule == extract_min_max(dst, col_name, typ,
                                     merge(default_profile_options, opts))
         IN  IF rule # None THEN <<rule[1]>> ELSE <<>>

\* ------------------------------------------------------ columns profiled
MaxValues == 4

ColumnValues == {-1, 0, 1, 4}

\* the columns of at most MaxValues values, in increasing order (the
\* aggregates do not depend on the order of the rows)
SmallColumns ==
    {values \in UNION {[1..n -> ColumnValues] : n \in 0..MaxValues} :
        \A i \in 1..(Len(values) - 1) : values[i] <= values[i + 1]}

\* the values 0..100 and the single outlier 10000
OutlierColumn == [i \in 1..102 |-> IF i <= 101 THEN i - 1 ELSE 10000]

\* the opts given to profile
OptsValues ==
    {<<>>, [num_sigmas |-> 1], [num_sigmas |-> 2],
     [sigmas |-> -1], [sigmas |-> 0], [sigmas |-> 1], [sigmas |-> 2],
     [remove_outliers |-> FALSE], [outlier_columns |-> <<"b">>]}

\* no column given to the profiler; nothing returned by it yet
NoColumn == [col_name |-> "", typ |-> "", values |-> <<>>, opts |-> <<>>]
NoProfileRet == [limits |-> None, rules |-> None]

\* ------------------------------------------------- rule_criticality kept
\* rule_criticality is a functools.cached_property: the first read of a
\* rule object computes it and keeps it in the object, later reads take
\* what is kept.  cache[i] is what the i-th rule object of the list keeps.
\* rule objects that share what one of them keeps
with_cache_shared(chks, memo) ==
    LET kept == {j \in 1..Len(memo) : memo[j] # None}
    IN  [i \in 1..Len(chks) |->
           [chks[i] EXCEPT !.criticality =
               IF kept # {} THEN memo[CHOOSE j \in kept : \A l \in kept : j <= l][1]
               ELSE @]]

\* the rules as a read of rule_criticality sees them
with_cache(chks, memo) ==
    [i \in 1..Len(chks) |->
        [chks[i] EXCEPT !.criticality = IF memo[i] # None THEN memo[i][1] ELSE @]]

\* what the rule objects keep after _get_check_columns has read them in
\* list order: a read that raises keeps nothing and ends the call
cache_after(chks, memo) ==
    LET seen == with_cache(chks, memo)
        raising == {j \in 1..Len(chks) : rule_criticality_raises(seen[j])}
    IN  [i \in 1..Len(chks) |->
           IF \A j \in raising : i < j THEN Some(rule_criticality(seen[i]))
           ELSE memo[i]]

\* ------------------------------------------------------------- actions
\* mret: what the last call on checks given as metadata raised (with the
\* lines of the exception's text) or returned; args holds the func_name
\* and fail_on_missing a call of _resolve_function was given, or the
\* filepath a call on a local file was given
NoMetaRet ==
    [args |-> <<>>, raised |-> "", message |-> <<>>, status |-> None,
     rules |-> None, func |-> None, checked |-> None, parsed |-> None,
     loaded |-> None]

\* ret: what the last engine call raised or returned (checked also holds
\* the local checked_df of apply_checks_and_split)
\* found is what the call found kept in the rule objects it was given
NoRet == [raised |-> "", checked |-> None, good |-> None, bad |-> None,
          found |-> <<>>]

Init ==
    /\ df = [schema |-> SCHEMA, rows |-> <<>>]
    /\ checks = <<>>
    /\ pc = "build"
    /\ ret = NoRet
    /\ metadata = <<>>
    /\ namespace = PyNone
    /\ mpc = "idle"
    /\ mret = NoMetaRet
    /\ files = NoFiles
    /\ cache = <<>>
    /\ profiled = NoColumn
    /\ pret = NoProfileRet

\* spark.createDataFrame: one more row of the input dataset
CreateRow ==
    /\ pc = "build"
    /\ Len(df.rows) < MaxRows
    /\ \E row \in Rows : df' = [df EXCEPT !.rows = Append(@, row)]
    /\ UNCHANGED <<checks, pc, ret, metadata, namespace, mpc, mret, files, cache, profiled, pret>>

\* a DQRule is constructed, with its name left out or given as the tests
\* give it, and put at the end of the rule list
NewDQRule ==
    /\ pc = "build"
    /\ Len(checks) < MaxRules
    /\ \E col_name \in Columns, criticality \in CriticalityStrings,
          filter \in Filters :
          \E name \in {"", "col_" \o col_name \o "_is_null_or_empty"} :
             checks' = Append(checks, DQRule(col_name, name, criticality, filter))
    /\ cache' = Append(cache, None)
    /\ UNCHANGED <<df, pc, ret, metadata, namespace, mpc, mret, files, profiled, pret>>

\* DQEngineCore.apply_checks(df, checks); the rules are read through the
\* rule_criticality their objects keep
ApplyChecks ==
    /\ pc = "build"
    /\ pc' = "apply_checks"
    /\ LET seen == with_cache(checks, cache)
           raised == apply_checks_raises(df, seen)
       IN  ret' = [NoRet EXCEPT
                     !.raised = raised,
                     !.checked = IF raised = "" THEN Some(apply_checks(df, seen))
                                 ELSE None,
                     !.found = cache]
    /\ cache' = cache_after(checks, cache)
    /\ UNCHANGED <<df, checks, metadata, namespace, mpc, mret, files, profiled, pret>>

\* DQEngineCore.apply_checks_and_split(df, checks)
ApplyChecksAndSplit ==
    /\ pc = "build"
    /\ pc' = "apply_checks_and_split"
    /\ LET seen == with_cache(checks, cache)
           raised == apply_checks_raises(df, seen)
           split == apply_checks_and_split(df, seen)
       IN  ret' = IF raised # "" THEN [NoRet EXCEPT !.raised = raised,
                                                  !.found = cache]
                  ELSE [NoRet EXCEPT
                          !.checked = IF Len(checks) = 0 THEN None
                                      ELSE Some(apply_checks(df, seen)),
                          !.good = Some(split.good),
                          !.bad = Some(split.bad),
                          !.found = cache]
    /\ cache' = cache_after(checks, cache)
    /\ UNCHANGED <<df, checks, metadata, namespace, mpc, mret, files, profiled, pret>>

Next == CreateRow \/ NewDQRule \/ ApplyChecks \/ ApplyChecksAndSplit

Spec == Init /\ [][Next]_vars

\* ---------------------------------------- actions on checks as metadata
\* the engine and a dataset exist, the caller has chosen the glbs it
\* passes and has not written a check definition yet
InitMeta ==
    /\ df = TestDf
    /\ checks = <<>>
    /\ pc = "metadata"
    /\ ret = NoRet
    /\ metadata = <<>>
    /\ namespace \in GlbsValues
    /\ mpc = "input"
    /\ mret = NoMetaRet
    /\ files = NoFiles
    /\ cache = <<>>
    /\ profiled = NoColumn
    /\ pret = NoProfileRet

\* one more check definition at the end of the list
AddCheckDef ==
    /\ mpc = "input"
    /\ Len(metadata) < MaxChecks
    /\ \E check \in CheckDefs : metadata' = Append(metadata, check)
    /\ UNCHANGED <<df, checks, pc, ret, namespace, mpc, mret, files, cache, profiled, pret>>

\* DQEngineCore._resolve_function(func_name, glbs, fail_on_missing)
ResolveFunction ==
    /\ mpc = "input"
    /\ metadata = <<>>
    /\ \E func_name \in FunctionNames, fail_on_missing \in BOOLEAN :
          LET raised == _resolve_function_raises(func_name, namespace, fail_on_missing)
          IN  /\ mpc' = "_resolve_function"
              /\ mret' = [NoMetaRet EXCEPT
                            !.args = <<func_name, fail_on_missing>>,
                            !.raised = raised,
                            !.func = IF raised # "" THEN None
                                     ELSE Some(_resolve_function(func_name, namespace,
                                                                 fail_on_missing))]
    /\ UNCHANGED <<df, checks, pc, ret, metadata, namespace, files, cache, profiled, pret>>

\* DQEngineCore.validate_checks(checks, glbs)
ValidateChecks ==
    /\ mpc = "input"
    /\ mpc' = "validate_checks"
    /\ LET raised == validate_checks_raises(metadata, namespace)
       IN  mret' = [NoMetaRet EXCEPT
                      !.raised = raised,
                      !.status = IF raised # "" THEN None
                                 ELSE Some(validate_checks(metadata, namespace))]
    /\ UNCHANGED <<df, checks, pc, ret, metadata, namespace, files, cache, profiled, pret>>

\* DQEngineCore.build_checks_by_metadata(checks, glbs)
BuildChecksByMetadata ==
    /\ mpc = "input"
    /\ mpc' = "build_checks_by_metadata"
    /\ LET e == build_checks_by_metadata_raises(metadata, namespace)
       IN  mret' = [NoMetaRet EXCEPT
                      !.raised = e.raised,
                      !.message = e.message,
                      !.rules = IF e.raised # "" THEN None
                                ELSE Some(build_checks_by_metadata(metadata, namespace))]
    /\ UNCHANGED <<df, checks, pc, ret, metadata, namespace, files, cache, profiled, pret>>

\* DQEngineCore.apply_checks_by_metadata(df, checks, glbs)
ApplyChecksByMetadata ==
    /\ mpc = "input"
    /\ mpc' = "apply_checks_by_metadata"
    /\ LET raised == apply_checks_by_metadata_raises(df, metadata, namespace)
       IN  mret' = [NoMetaRet EXCEPT
                      !.raised = raised,
                      !.checked = IF raised # "" THEN None
                                  ELSE Some(apply_checks_by_metadata(df, metadata,
                                                                     namespace))]
    /\ UNCHANGED <<df, checks, pc, ret, metadata, namespace, files, cache, profiled, pret>>

NextMeta ==
    \/ AddCheckDef
    \/ ResolveFunction
    \/ ValidateChecks
    \/ BuildChecksByMetadata
    \/ ApplyChecksByMetadata

SpecMeta == InitMeta /\ [][NextMeta]_vars

\* ------------------------------------------------- actions on files
InitFile ==
    /\ df = TestDf
    /\ checks = <<>>
    /\ pc = "files"
    /\ ret = NoRet
    /\ metadata = <<>>
    /\ namespace = PyNone
    /\ mpc = "input"
    /\ mret = NoMetaRet
    /\ files = NoFiles
    /\ cache = <<>>
    /\ profiled = NoColumn
    /\ pret = NoProfileRet

\* DQEngine.save_checks_in_local_file(checks, path)
SaveChecksInLocalFile ==
    /\ mpc = "input"
    /\ mpc' = "save_checks_in_local_file"
    /\ \E filepath \in Paths :
          /\ files' = save_checks_in_local_file(metadata, filepath, files)
          /\ mret' = [NoMetaRet EXCEPT
                        !.args = <<filepath>>,
                        !.raised = save_checks_in_local_file_raises(filepath)]
    /\ UNCHANGED <<df, checks, pc, ret, metadata, namespace, cache, profiled, pret>>

\* DQEngine.load_checks_from_local_file(filepath), of a file saved before
\* or of none; parsed is what DQEngineCore returned to it
LoadChecksFromLocalFile ==
    /\ mpc \in {"input", "save_checks_in_local_file"}
    /\ mpc' = "load_checks_from_local_file"
    /\ \E filepath \in Paths :
          LET core == load_checks_from_local_file_raises(filepath, files)
              raised == DQEngine_load_checks_from_local_file_raises(filepath, files)
          IN  mret' = [NoMetaRet EXCEPT
                         !.args = <<filepath>>,
                         !.raised = raised,
                         !.parsed = IF core # "" THEN None
                                    ELSE Some(load_checks_from_local_file(filepath, files)),
                         !.loaded = IF raised # "" THEN None
                                    ELSE Some(load_checks_from_local_file(filepath, files))]
    /\ UNCHANGED <<df, checks, pc, ret, metadata, namespace, files, cache, profiled, pret>>

NextFile == AddCheckDef \/ SaveChecksInLocalFile \/ LoadChecksFromLocalFile

SpecFile == InitFile /\ [][NextFile]_vars

\* ------------------------------------------- calls one after another
\* the engine, a dataset and no rule yet; the rule objects stay in use
\* from one call to the next
InitPure ==
    /\ df = TestDf
    /\ checks = <<>>
    /\ pc = "build"
    /\ ret = NoRet
    /\ metadata = <<>>
    /\ namespace = PyNone
    /\ mpc = "idle"
    /\ mret = NoMetaRet
    /\ files = NoFiles
    /\ cache = <<>>
    /\ profiled = NoColumn
    /\ pret = NoProfileRet

\* the caller has its result (or exception) and goes on with the same
\* engine, dataset and rule objects
CallReturned ==
    /\ pc \in {"apply_checks", "apply_checks_and_split"}
    /\ pc' = "build"
    /\ ret' = NoRet
    /\ UNCHANGED <<df, checks, metadata, namespace, mpc, mret, files, cache, profiled, pret>>

NextPure == NewDQRule \/ ApplyChecks \/ ApplyChecksAndSplit \/ CallReturned

SpecPure == InitPure /\ [][NextPure]_vars

\* ---------------------------------------------------- actions on profiles
\* a dataset of one column "a" without nulls and the opts of the call
InitProfile ==
    /\ profiled \in
          {[col_name |-> "a", typ |-> typ, values |-> values, opts |-> opts] :
              typ \in {"IntegerType", "DoubleType"},
              values \in SmallColumns \cup {OutlierColumn},
              opts \in OptsValues}
    /\ pret = NoProfileRet
    /\ df = [schema |-> SCHEMA, rows |-> <<>>]
    /\ checks = <<>>
    /\ pc = "profiler"
    /\ ret = NoRet
    /\ metadata = <<>>
    /\ namespace = PyNone
    /\ mpc = "idle"
    /\ mret = NoMetaRet
    /\ files = NoFiles
    /\ cache = <<>>

\* get_min_max as extract_min_max calls it from profile, on a column that
\* has a value and from which outliers are to be removed
GetMinMax ==
    /\ pret = NoProfileRet
    /\ Len(profiled.values) > 0
    /\ detect_outliers(profiled.col_name, merge(default_profile_options, profiled.opts))
    /\ pret' = [NoProfileRet EXCEPT
                  !.limits = Some(get_min_max(agg(profiled.values),
                                              merge(default_profile_options, profiled.opts),
                                              profiled.typ))]
    /\ UNCHANGED <<df, checks, pc, ret, metadata, namespace, mpc, mret, files, cache, profiled>>

\* profile(df, cols, opts)
Profile ==
    /\ pret = NoProfileRet
    /\ pret' = [NoProfileRet EXCEPT
                  !.rules = Some(profile(profiled.values, profiled.col_name,
                                         profiled.typ, profiled.opts))]
    /\ UNCHANGED <<df, checks, pc, ret, metadata, namespace, mpc, mret, files, cache, profiled>>

NextProfile == GetMinMax \/ Profile

SpecProfile == InitProfile /\ [][NextProfile]_vars

\* ===================================================================
\* Properties
\* ===================================================================
\* The claims speak of a rule "triggering" on a row; these definitions
\* state that in terms of the row alone, not of check_column.
PredicateFails(rule, row) == row[rule.col_name] = None
FilterSatisfied(rule, row) ==
    \/ rule.filter = None
    \/ rule.filter = Some("b>3") /\ row.b # None /\ row.b[1] > 3
Triggered(rule, row) == PredicateFails(rule, row) /\ FilterSatisfied(rule, row)
TierTriggered(tier, row) ==
    \E k \in 1..Len(checks) : checks[k].criticality = tier /\ Triggered(checks[k], row)
ResultColumn(tier) ==
    IF tier = CriticalityERROR THEN DefaultColumnNamesERRORS
    ELSE DefaultColumnNamesWARNINGS
Keys(m) == [j \in 1..Len(m) |-> m[j][1]]
Original(row) == [c \in Range(SCHEMA) |-> row[c]]
Applied == pc = "apply_checks" /\ ret.raised = ""
Split == pc = "apply_checks_and_split" /\ ret.raised = ""
WithResults == Append(Append(SCHEMA, DefaultColumnNamesERRORS), DefaultColumnNamesWARNINGS)

\* C1: on every row apply_checks evaluated, the result column of a tier is
\* null exactly when no rule of that tier triggered on the row, and it is
\* never an empty collection.
C1_NullIffNoRuleTriggered ==
    Applied =>
        \A i \in 1..Len(ret.checked[1].rows) : \A tier \in Criticality :
            LET v == ret.checked[1].rows[i][ResultColumn(tier)]
            IN  /\ isNull(v) <=> ~TierTriggered(tier, df.rows[i])
                /\ v # Some(<<>>)

C1_Witness ==
    /\ Applied
    /\ \E i \in 1..Len(ret.checked[1].rows) :
          /\ isNotNull(ret.checked[1].rows[i][DefaultColumnNamesERRORS])
          /\ isNull(ret.checked[1].rows[i][DefaultColumnNamesWARNINGS])
          /\ \E k \in 1..Len(checks) : checks[k].criticality = CriticalityWARN

\* C2: on every row and for each tier, the entries recorded are those of
\* the triggered rules of the tier in the order the rules have in the rule
\* list.
C2_EntriesInRuleOrder ==
    Applied =>
        \A i \in 1..Len(ret.checked[1].rows) : \A tier \in Criticality :
            LET v == ret.checked[1].rows[i][ResultColumn(tier)]
                fired(rule) == rule.criticality = tier /\ Triggered(rule, df.rows[i])
                expected == SelectSeq(checks, fired)
            IN  isNotNull(v) =>
                    Keys(v[1]) = [j \in 1..Len(expected) |-> expected[j].name]

C2_Witness ==
    /\ Applied
    /\ \E i \in 1..Len(ret.checked[1].rows) :
          LET v == ret.checked[1].rows[i][DefaultColumnNamesERRORS]
          IN  /\ isNotNull(v)
              /\ Keys(v[1]) = <<"col_b_is_null_or_empty", "col_a_is_null_or_empty">>

\* C3: a rule with a filter, on a row where its predicate fails, appears in
\* the row's result of its tier exactly when the row satisfies the filter.
C3_FilterSemantics ==
    Applied =>
        \A i \in 1..Len(ret.checked[1].rows) : \A k \in 1..Len(checks) :
            LET rule == checks[k]
                v == ret.checked[1].rows[i][ResultColumn(rule.criticality)]
                appears == isNotNull(v) /\ rule.name \in Range(Keys(v[1]))
            IN  (rule.filter # None /\ PredicateFails(rule, df.rows[i])) =>
                    (appears <=> (df.rows[i].b # None /\ df.rows[i].b[1] > 3))

C3_Witness ==
    /\ Applied
    /\ \E k \in 1..Len(checks) : \E i, j \in 1..Len(df.rows) :
          LET rule == checks[k]
              vi == ret.checked[1].rows[i][ResultColumn(rule.criticality)]
              vj == ret.checked[1].rows[j][ResultColumn(rule.criticality)]
          IN  /\ rule.filter # None
              /\ PredicateFails(rule, df.rows[i]) /\ PredicateFails(rule, df.rows[j])
              /\ df.rows[i].b = Some(3) /\ isNull(vi)
              /\ df.rows[j].b = Some(4) /\ isNotNull(vj)
              /\ rule.name \in Range(Keys(vj[1]))

\* C4: with a non-empty rule list, every input row is in valid or in
\* invalid, and every row of valid had a null error column.
C4_SplitCoversAllRows ==
    (Split /\ Len(checks) > 0) =>
        /\ \A i \in 1..Len(df.rows) :
              \/ df.rows[i] \in Range(ret.good[1].rows)
              \/ \E j \in 1..Len(ret.bad[1].rows) :
                    Original(ret.bad[1].rows[j]) = df.rows[i]
        /\ \A j \in 1..Len(ret.good[1].rows) :
              \E i \in 1..Len(df.rows) :
                 /\ Original(ret.checked[1].rows[i]) = ret.good[1].rows[j]
                 /\ isNull(ret.checked[1].rows[i][DefaultColumnNamesERRORS])
        /\ Len(ret.good[1].rows) + Len(ret.bad[1].rows) >= Len(df.rows)

C4_Witness ==
    /\ Split /\ Len(checks) > 0
    /\ Len(ret.good[1].rows) = 1
    /\ Len(ret.bad[1].rows) = 1
    /\ isNotNull(ret.bad[1].rows[1][DefaultColumnNamesERRORS])

\* C5: a row on which a warn rule triggered and no error rule triggered is
\* in valid and in invalid.
C5_WarningOnlyRowInBoth ==
    Split =>
        \A i \in 1..Len(df.rows) :
            (TierTriggered(CriticalityWARN, df.rows[i])
             /\ ~TierTriggered(CriticalityERROR, df.rows[i])) =>
                /\ df.rows[i] \in Range(ret.good[1].rows)
                /\ \E j \in 1..Len(ret.bad[1].rows) :
                      /\ Original(ret.bad[1].rows[j]) = df.rows[i]
                      /\ isNotNull(ret.bad[1].rows[j][DefaultColumnNamesWARNINGS])

C5_Witness ==
    /\ Split
    /\ \E i \in 1..Len(df.rows) :
          /\ TierTriggered(CriticalityWARN, df.rows[i])
          /\ ~TierTriggered(CriticalityERROR, df.rows[i])
          /\ \E k \in 1..Len(checks) : checks[k].criticality = CriticalityERROR
    /\ Len(ret.good[1].rows) + Len(ret.bad[1].rows) > Len(df.rows)

\* C6: after a split with a non-empty rule list, a row on which an error
\* rule triggered is not in valid, and a row on which no rule triggered is
\* not in invalid.
C6_ErrorRowsNotValidCleanRowsNotInvalid ==
    (Split /\ Len(checks) > 0) =>
        \A i \in 1..Len(df.rows) :
            /\ TierTriggered(CriticalityERROR, df.rows[i]) =>
                  df.rows[i] \notin Range(ret.good[1].rows)
            /\ (~TierTriggered(CriticalityERROR, df.rows[i])
                /\ ~TierTriggered(CriticalityWARN, df.rows[i])) =>
                  \A j \in 1..Len(ret.bad[1].rows) :
                     Original(ret.bad[1].rows[j]) # df.rows[i]

C6_Witness ==
    /\ Split /\ Len(checks) > 0
    /\ \E i, j \in 1..Len(df.rows) :
          /\ TierTriggered(CriticalityERROR, df.rows[i])
          /\ ~TierTriggered(CriticalityERROR, df.rows[j])
          /\ ~TierTriggered(CriticalityWARN, df.rows[j])
    /\ Len(ret.good[1].rows) = 1 /\ Len(ret.bad[1].rows) = 1

\* C7: valid has neither result column and holds rows of the input with
\* their values as they were, in input order; invalid has both result
\* columns.
C7_ValidDropsResultColumns ==
    Split =>
        /\ ret.good[1].schema = SCHEMA
        /\ \A j \in 1..Len(ret.good[1].rows) :
              /\ DOMAIN ret.good[1].rows[j] = Range(SCHEMA)
              /\ ret.good[1].rows[j] \in Range(df.rows)
        /\ ret.bad[1].schema = WithResults
        /\ \A j \in 1..Len(ret.bad[1].rows) :
              /\ DOMAIN ret.bad[1].rows[j] = Range(WithResults)
              /\ Original(ret.bad[1].rows[j]) \in Range(df.rows)

C7_Witness ==
    /\ Split /\ Len(checks) > 0
    /\ Len(ret.good[1].rows) = 2
    /\ Len(ret.bad[1].rows) = 1
    /\ isNotNull(ret.bad[1].rows[1][DefaultColumnNamesWARNINGS])

\* C8: with an empty rule list apply_checks returns the input rows with
\* both result columns appended and null, and apply_checks_and_split returns
\* the input as it is and a dataset of no rows whose schema is the input's
\* plus the two result columns.
C8_EmptyRuleList ==
    /\ (pc = "apply_checks" /\ Len(checks) = 0) =>
          /\ ret.raised = ""
          /\ ret.checked[1].schema = WithResults
          /\ Len(ret.checked[1].rows) = Len(df.rows)
          /\ \A i \in 1..Len(df.rows) :
                /\ Original(ret.checked[1].rows[i]) = df.rows[i]
                /\ isNull(ret.checked[1].rows[i][DefaultColumnNamesERRORS])
                /\ isNull(ret.checked[1].rows[i][DefaultColumnNamesWARNINGS])
    /\ (pc = "apply_checks_and_split" /\ Len(checks) = 0) =>
          /\ ret.raised = ""
          /\ ret.good[1] = df
          /\ ret.bad[1] = [schema |-> WithResults, rows |-> <<>>]

C8_Witness ==
    /\ pc = "apply_checks_and_split"
    /\ Len(checks) = 0
    /\ Len(df.rows) = 2
    /\ ret.good[1] = df

\* C9: the dataset apply_checks returns has the rows of the input, in
\* input order and with every original value, and the input's columns
\* followed by exactly the two result columns.
C9_ApplyChecksFrame ==
    Applied =>
        /\ ret.checked[1].schema = WithResults
        /\ Len(ret.checked[1].rows) = Len(df.rows)
        /\ \A i \in 1..Len(df.rows) :
              /\ DOMAIN ret.checked[1].rows[i] = Range(WithResults)
              /\ Original(ret.checked[1].rows[i]) = df.rows[i]

C9_Witness ==
    /\ Applied
    /\ Len(checks) = 2
    /\ Len(df.rows) = 2
    /\ df.rows[1] # df.rows[2]
    /\ isNotNull(ret.checked[1].rows[2][DefaultColumnNamesERRORS])
    /\ isNull(ret.checked[1].rows[1][DefaultColumnNamesERRORS])

\* C10: a rule whose criticality is neither error nor warn is constructed
\* and listed without any failure; apply_checks on a list holding one
\* raises the error naming the value and returns no dataset.
HasInvalidCriticality == \E k \in 1..Len(checks) : checks[k].criticality \notin Criticality

C10_InvalidCriticalityRaisedAtEvaluation ==
    /\ pc = "build" => ret.raised = ""
    /\ (pc = "apply_checks" /\ HasInvalidCriticality) =>
          /\ ret.raised = "ValueError: Invalid criticality value: invalid"
          /\ ret.checked = None
    /\ (pc = "apply_checks" /\ ~HasInvalidCriticality) =>
          ret.raised # "ValueError: Invalid criticality value: invalid"

C10_Witness ==
    /\ pc = "apply_checks"
    /\ Len(checks) = 2
    /\ checks[1].criticality = CriticalityERROR
    /\ checks[2].criticality = "invalid"
    /\ ret.raised = "ValueError: Invalid criticality value: invalid"
    /\ ret.checked = None

\* C11: every rule that exists after construction has criticality error or
\* warn (construction with another value fails).
C11_EveryRuleHasValidCriticality ==
    \A k \in 1..Len(checks) : checks[k].criticality \in Criticality

\* C11 (amended): construction accepts any criticality value; the value is
\* checked when the rule is evaluated, so every rule of a list that
\* apply_checks or apply_checks_and_split evaluated to a result has
\* criticality error or warn.
C11_EvaluatedRulesHaveValidCriticality ==
    (Applied \/ Split) => ~HasInvalidCriticality

C11_Witness ==
    /\ Split
    /\ Len(checks) = 2
    /\ checks[1].criticality = CriticalityWARN
    /\ checks[2].criticality = CriticalityERROR
    /\ ret.good # None

\* ------------------------------------------ checks given as metadata
Validated == mpc = "validate_checks"
Built == mpc = "build_checks_by_metadata"
AppliedByMetadata == mpc = "apply_checks_by_metadata"
Reverse(s) == [i \in 1..Len(s) |-> s[Len(s) + 1 - i]]
\* the errors a list of one definition gets
ErrorsOf(check) == validate_checks(<<check>>, namespace)
Malformed == InvalidDefs \cup FunctionNotANameDefs

\* C12: validate_checks returns a status for every list; every malformed
\* definition contributes at least one error whatever precedes it, the
\* errors are those of the definitions in the order of the list, and the
\* set of errors is the same for the list in reverse order.
C12_EveryInvalidSpecReported ==
    Validated =>
        /\ mret.status # None
        /\ \A i \in 1..Len(metadata) :
              metadata[i] \in Malformed => ErrorsOf(metadata[i]) # <<>>
        /\ mret.status[1] = extend([i \in 1..Len(metadata) |-> ErrorsOf(metadata[i])])
        /\ Range(mret.status[1]) = Range(validate_checks(Reverse(metadata), namespace))

\* C13: when the validation of the list reports an error,
\* build_checks_by_metadata raises a ValueError whose text has every error
\* of the validation, in order, and returns no rule list, also when the
\* definitions before the malformed one are well-formed.
C13_BuildFailsWithAllValidationErrors ==
    (Built /\ validate_checks_raises(metadata, namespace) = ""
           /\ has_errors(validate_checks(metadata, namespace))) =>
        /\ mret.raised = "ValueError"
        /\ mret.message = validate_checks(metadata, namespace)
        /\ \A i \in 1..Len(metadata) :
              \A e \in Range(ErrorsOf(metadata[i])) : e \in Range(mret.message)
        /\ \A i \in 1..Len(metadata) :
              metadata[i] \in InvalidDefs => ErrorsOf(metadata[i]) # <<>>
        /\ mret.rules = None

C13_Witness ==
    /\ Built
    /\ namespace = PyNone
    /\ Len(metadata) = 2
    /\ metadata[1] \in ColNamesDefs
    /\ metadata[2] = InvalidCriticalityCheckMissingDef
    /\ mret.raised = "ValueError"
    /\ Len(mret.message) = 2
    /\ mret.rules = None

\* C14: validate_checks never raises: for every list of raw definitions it
\* returns a status.
C14_ValidateChecksNeverRaises ==
    Validated => (mret.raised = "" /\ mret.status # None)

\* ------------------------------------------------ function resolution
Resolved == mpc = "_resolve_function"
func_name_given == mret.args[1]
fail_on_missing_given == mret.args[2]
IsBuiltin(name) == name = PyStr("is_not_null_and_not_empty")
InMapping(name) ==
    \E i \in 1..Len(namespace[2]) : PyStr(namespace[2][i][1]) = name

MissingFromNamespace(name) ==
    IF namespace \notin {PyNone, PyDict(<<>>)} THEN ~InMapping(name)
    ELSE ~IsBuiltin(name)

C16_MissingNameFailsOrNull ==
    (Resolved /\ type(func_name_given) = "str"
              /\ MissingFromNamespace(func_name_given)) =>
        IF fail_on_missing_given
        THEN mret.raised # "" /\ mret.func = None
        ELSE mret.raised = "" /\ mret.func = Some(PyNone)

\* C17: apply_checks_by_metadata on a list of one definition naming the
\* built-in and one naming the custom function, given the mapping of the
\* custom function alone, returns the dataset it returns when the mapping
\* holds both functions.
NamesFunction(check, function) ==
    /\ check \in SingleColumnDefs \cup ColNamesDefs
    /\ getitem(getitem(check, "check"), "function") = function[1]

C17_CustomOnlyMappingEvaluatesBoth ==
    (AppliedByMetadata /\ namespace = GlbsCustomOnly /\ Len(metadata) = 2
        /\ NamesFunction(metadata[1], builtin_function)
        /\ NamesFunction(metadata[2], custom_function)) =>
        /\ mret.raised = ""
        /\ apply_checks_by_metadata_raises(df, metadata, GlbsGlobals) = ""
        /\ mret.checked = Some(apply_checks_by_metadata(df, metadata, GlbsGlobals))

\* C18: a definition with col_names [c1..cn] builds the rule list that the
\* n definitions with col_name ci and the same function, criticality,
\* filter and other arguments build, and the rules of the definitions of a
\* list come in the order of the list.
with_col_name(check, c) ==
    LET block == getitem(check, "check")
        arguments == getitem(block, "arguments")
        renamed == [i \in 1..Len(arguments[2]) |->
                      IF arguments[2][i][1] = "col_names" THEN <<"col_name", c>>
                      ELSE arguments[2][i]]
        new_block == [i \in 1..Len(block[2]) |->
                        IF block[2][i][1] = "arguments"
                        THEN <<"arguments", PyDict(renamed)>> ELSE block[2][i]]
    IN  PyDict([i \in 1..Len(check[2]) |->
                  IF check[2][i][1] = "check" THEN <<"check", PyDict(new_block)>>
                  ELSE check[2][i]])
SingleColumnDefsOf(check) ==
    LET columns == getitem(getitem(getitem(check, "check"), "arguments"), "col_names")[2]
    IN  [i \in 1..Len(columns) |-> with_col_name(check, columns[i])]

C18_ColNamesBuildsLikeSingleColumnDefs ==
    (Built /\ mret.raised = "" /\ \A i \in 1..Len(metadata) : metadata[i] \in ColNamesDefs) =>
        /\ mret.rules =
              Some(extend([i \in 1..Len(metadata) |->
                             build_checks_by_metadata(<<metadata[i]>>, namespace)]))
        /\ \A i \in 1..Len(metadata) :
              LET singles == SingleColumnDefsOf(metadata[i])
              IN  /\ build_checks_by_metadata_raises(singles, namespace).raised = ""
                  /\ build_checks_by_metadata(<<metadata[i]>>, namespace)
                        = build_checks_by_metadata(singles, namespace)

\* ---------------------------------------------------------------- C19
Called == pc \in {"apply_checks", "apply_checks_and_split"}

\* the step is a call of apply_checks or apply_checks_and_split
Calling == pc = "build" /\ pc' \in {"apply_checks", "apply_checks_and_split"}

\* what the call returns is what the same call returns on rule objects
\* that no call has read before
SameAsFirstCall ==
    /\ ret'.raised = apply_checks_raises(df, checks)
    /\ (ret'.raised = "" /\ Len(checks) > 0) =>
           ret'.checked = Some(apply_checks(df, checks))
    /\ (ret'.raised = "" /\ pc' = "apply_checks_and_split") =>
           /\ ret'.good = Some(apply_checks_and_split(df, checks).good)
           /\ ret'.bad = Some(apply_checks_and_split(df, checks).bad)

C27_NullFilterRuleNotApplicable ==
    Applied =>
        \A i \in 1..Len(df.rows) : \A k \in 1..Len(checks) :
            (checks[k].filter = Some("b>3") /\ df.rows[i].b = None) =>
                LET v == ret.checked[1].rows[i][ResultColumn(checks[k].criticality)]
                IN  isNotNull(v) => checks[k].name \notin Range(Keys(v[1]))

\* the rule's predicate fails on both rows; b is null on the first and 4
\* on the second, which alone gets the entry
C27_Witness ==
    /\ Applied
    /\ Len(df.rows) = 2
    /\ Len(checks) = 1
    /\ checks[1].filter = Some("b>3")
    /\ checks[1].col_name = "a"
    /\ df.rows[1] = [a |-> None, b |-> None]
    /\ df.rows[2] = [a |-> None, b |-> Some(4)]
    /\ isNull(ret.checked[1].rows[1][ResultColumn(checks[1].criticality)])
    /\ isNotNull(ret.checked[1].rows[2][ResultColumn(checks[1].criticality)])

\* ------------------------------------------- validation of arguments
\* the check block of a definition, the function it names as the
\* validation resolves it, and the arguments it gives
block_of(check) == getitem(check, "check")
func_of(check) == _resolve_function(getitem(block_of(check), "function"), namespace, FALSE)
arguments_of(check) == get(block_of(check), "arguments", PyDict(<<>>))

\* the validation of the definition gets to the arguments of a function
\* that resolved
ReachesArguments(check) ==
    /\ type(check) = "dict"
    /\ contains(check, "check")
    /\ type(block_of(check)) = "dict"
    /\ contains(block_of(check), "function")
    /\ validate_check_raises(check, namespace) = ""
    /\ callable(func_of(check))

\* ... and to the signature: the arguments are a mapping whose col_names,
\* when given, is a list that is not empty
ReachesSignature(check) ==
    /\ ReachesArguments(check)
    /\ type(arguments_of(check)) = "dict"
    /\ contains(arguments_of(check), "col_names") =>
          /\ type(getitem(arguments_of(check), "col_names")) = "list"
          /\ getitem(arguments_of(check), "col_names")[2] # <<>>

\* the argument names a definition provides, col_names standing for
\* col_name, and the values, the first column standing for col_names
provided_name(item) == IF item[1] = "col_names" THEN "col_name" ELSE item[1]
provided_value(item) == IF item[1] = "col_names" THEN item[2][2][1] ELSE item[2]

\* the declared parameters of a function and the text that lists them
declared(func) == {signature(func)[j].name : j \in 1..Len(signature(func))}
declared_type(func, name) ==
    signature(func)[CHOOSE j \in 1..Len(signature(func)) : signature(func)[j].name = name].annotation
listed(func) ==
    IF func = PyFunction("is_not_null_and_not_empty")
    THEN "['col_name', 'trim_strings']" ELSE "['col_name']"

Reported == mret.status[1]

\* C24: every provided argument whose name is not a declared parameter of
\* the resolved function gets an error, and every one whose value is not
\* of the declared type gets an error; all of them are reported.
C24_EveryOffendingArgumentReported ==
    (Validated /\ mret.raised = "") =>
        \A i \in 1..Len(metadata) :
            ReachesSignature(metadata[i]) =>
                LET check == metadata[i]
                    func == func_of(check)
                    items == arguments_of(check)[2]
                IN  \A n \in 1..Len(items) :
                        LET name == provided_name(items[n])
                        IN  /\ name \notin declared(func) =>
                                  <<"Unexpected argument '" \o name \o "' for function '"
                                      \o func[2]
                                      \o "' in the 'arguments' block. Expected arguments are: "
                                      \o listed(func), check>> \in Range(Reported)
                            /\ (/\ name \in declared(func)
                                /\ ~isinstance(provided_value(items[n]), declared_type(func, name))) =>
                                  <<"Argument '" \o name \o "' should be of type '"
                                      \o declared_type(func, name) \o "' for function '"
                                      \o func[2] \o "' in the 'arguments' block", check>>
                                      \in Range(Reported)

\* a definition with an unexpected argument and one of the wrong type:
\* two errors
C24_Witness ==
    /\ Validated
    /\ mret.raised = ""
    /\ metadata = <<TwoOffendingArgumentsDef>>
    /\ ReachesSignature(metadata[1])
    /\ Len(Reported) = 2
    /\ Reported[1][1] # Reported[2][1]

\* C25: a definition without arguments (no arguments key, or an empty
\* mapping) for a resolved function that declares a parameter gets an
\* error that names the function and lists its parameters.
C25_NoArgumentsReported ==
    (Validated /\ mret.raised = "") =>
        \A i \in 1..Len(metadata) :
            (/\ ReachesArguments(metadata[i])
             /\ arguments_of(metadata[i]) = PyDict(<<>>)
             /\ declared(func_of(metadata[i])) # {}) =>
                <<"No arguments provided for function '" \o func_of(metadata[i])[2]
                    \o "' in the 'arguments' block. Expected arguments are: "
                    \o listed(func_of(metadata[i])), metadata[i]>> \in Range(Reported)

\* the arguments key left out, then an empty mapping
C25_Witness ==
    /\ Validated
    /\ mret.raised = ""
    /\ Len(metadata) = 2
    /\ metadata[1] = NoArgumentsDef
    /\ ~contains(block_of(metadata[1]), "arguments")
    /\ ReachesArguments(metadata[2])
    /\ contains(block_of(metadata[2]), "arguments")
    /\ arguments_of(metadata[2]) = PyDict(<<>>)
    /\ Len(Reported) = 2

\* the texts of the errors, without the definitions they print
texts(errors) == [j \in 1..Len(errors) |-> errors[j][1]]

\* C26: col_names that is not a list, or is an empty list, gets an error;
\* otherwise the definition gets the errors that the same definition gets
\* with col_name set to the first element of col_names.
C26_ColNamesValidatedByFirstElement ==
    (Validated /\ mret.raised = "") =>
        /\ Reported = extend([i \in 1..Len(metadata) |-> ErrorsOf(metadata[i])])
        /\ \A i \in 1..Len(metadata) :
              (/\ ReachesArguments(metadata[i])
               /\ type(arguments_of(metadata[i])) = "dict"
               /\ contains(arguments_of(metadata[i]), "col_names")) =>
                  LET check == metadata[i]
                      col_names == getitem(arguments_of(check), "col_names")
                  IN  IF type(col_names) # "list"
                      THEN <<"'col_names' should be a list in the 'arguments' block", check>>
                              \in Range(ErrorsOf(check))
                      ELSE IF col_names[2] = <<>>
                      THEN <<"'col_names' should not be empty in the 'arguments' block", check>>
                              \in Range(ErrorsOf(check))
                      ELSE texts(ErrorsOf(check))
                              = texts(ErrorsOf(with_col_name(check, col_names[2][1])))

\* col_names [1, 'a']: the error is that of col_name 1
C26_Witness ==
    /\ Validated
    /\ mret.raised = ""
    /\ Len(metadata) = 1
    /\ ReachesSignature(metadata[1])
    /\ contains(arguments_of(metadata[1]), "col_names")
    /\ getitem(arguments_of(metadata[1]), "col_names") = PyList(<<PyInt(1), PyStr("a")>>)
    /\ texts(Reported) =
          <<"Argument 'col_name' should be of type 'str' for function 'is_not_null_and_not_empty' in the 'arguments' block">>

\* the definition gives arguments, none of them offending, and leaves out
\* a parameter that has no default
OmitsRequired(check) ==
    /\ ReachesSignature(check)
    /\ arguments_of(check) # PyDict(<<>>)
    /\ \A n \in 1..Len(arguments_of(check)[2]) :
          LET name == provided_name(arguments_of(check)[2][n])
          IN  /\ name \in declared(func_of(check))
              /\ isinstance(provided_value(arguments_of(check)[2][n]),
                            declared_type(func_of(check), name))
    /\ \E j \in 1..Len(signature(func_of(check))) :
          /\ signature(func_of(check))[j].required
          /\ \A n \in 1..Len(arguments_of(check)[2]) :
                provided_name(arguments_of(check)[2][n]) # signature(func_of(check))[j].name

\* C30: the error of missing arguments is reported only for an empty
\* arguments mapping; a definition that gives arguments and leaves out a
\* required parameter gets no error, and build_checks_by_metadata then
\* fails on it with the TypeError of the call that lacks the argument.
C30_MissingRequiredArgumentNotValidated ==
    /\ (Validated /\ mret.raised = "") =>
          /\ \A j \in 1..Len(Reported) :
                (\E f \in {"is_not_null_and_not_empty", custom_check_func_global_name} :
                    Reported[j][1] = "No arguments provided for function '" \o f
                        \o "' in the 'arguments' block. Expected arguments are: "
                        \o listed(PyFunction(f))) =>
                    arguments_of(Reported[j][2]) = PyDict(<<>>)
          /\ \A i \in 1..Len(metadata) :
                OmitsRequired(metadata[i]) => ErrorsOf(metadata[i]) = <<>>
    /\ (/\ Built
        /\ \E i \in 1..Len(metadata) :
              /\ OmitsRequired(metadata[i])
              /\ \A j \in 1..(i - 1) : metadata[j] \in ColNamesDefs
        /\ validate_checks_raises(metadata, namespace) = ""
        /\ ~has_errors(validate_checks(metadata, namespace))) =>
          /\ mret.raised = "TypeError: missing a required positional argument"
          /\ mret.rules = None

\* a list that passes validation and fails in the build on its second
\* definition, which gives trim_strings and no col_name
C30_Witness ==
    /\ Built
    /\ Len(metadata) = 2
    /\ metadata[1] \in ColNamesDefs
    /\ metadata[2] \in MissingRequiredDefs
    /\ OmitsRequired(metadata[2])
    /\ validate_checks(metadata, namespace) = <<>>
    /\ mret.raised = "TypeError: missing a required positional argument"
    /\ mret.rules = None

\* ------------------------------------------------------------- profiler
Profiled == pret.rules # None
Limited == pret.limits # None

\* the opts as extract_min_max and get_min_max receive them
opts_given == merge(default_profile_options, profiled.opts)

\* the row of aggregates of the column profiled
mn_mx_given == agg(profiled.values)

\* outliers are removed, and the column has a mean and a standard deviation
Capped ==
    /\ Len(profiled.values) > 0
    /\ detect_outliers(profiled.col_name, opts_given)
    /\ mn_mx_given.stddev # None

\* the width k that get_min_max multiplies the standard deviation with
k_used == IF "sigmas" \in DOMAIN profiled.opts THEN profiled.opts.sigmas ELSE 3

\* the capped interval mean - k * stddev .. mean + k * stddev
capped_lo == mn_mx_given.avg[1] - k_used * mn_mx_given.stddev[1]
capped_hi == mn_mx_given.avg[1] + k_used * mn_mx_given.stddev[1]
true_min == mn_mx_given.min[1]
true_max == mn_mx_given.max[1]

\* C21: profiling the integer column 0..100 plus 10000 with 3 sigmas and
\* outlier removal proposes a range rule with lower bound 0, the true
\* minimum, and an upper bound below 10000, the true maximum.
C21_OutlierColumnRangeRule ==
    (/\ Profiled
     /\ profiled.values = OutlierColumn
     /\ profiled.typ = "IntegerType"
     /\ profiled.opts = <<>>) =>
        /\ Len(pret.rules[1]) = 1
        /\ pret.rules[1][1].name = "min_max"
        /\ pret.rules[1][1].parameters.min = 0
        /\ pret.rules[1][1].parameters.max < 10000 * Scale

\* C22: the width of the capped interval is the value of the num_sigmas
\* option: profiling with num_sigmas = k gives the limits computed with k.
C22_NumSigmasIsTheWidth ==
    (Limited /\ "num_sigmas" \in DOMAIN profiled.opts) =>
        pret.limits[1] = get_min_max(mn_mx_given, [sigmas |-> profiled.opts.num_sigmas],
                                     profiled.typ)

\* floor / ceiling of the limits of an integer column, none for a double
rounded(value, direction) ==
    IF profiled.typ # "IntegerType" THEN value
    ELSE IF direction = "down" THEN floor(value) ELSE ceil(value)

\* C23: range reconciliation: a capped interval strictly inside the true
\* range gives the capped bounds; one wider on both sides gives the true
\* minimum and maximum; one looser on one side only gives the true value
\* on that side and the capped value on the other; the description names
\* the branch taken.
C23_RangeReconciliation ==
    (Limited /\ Capped) =>
        LET limits == pret.limits[1]
        IN  /\ (capped_lo > true_min /\ capped_hi < true_max) =>
                  /\ limits.min_limit = Some(rounded(capped_lo, "down"))
                  /\ limits.max_limit = Some(rounded(capped_hi, "up"))
                  /\ limits.descr # None
                  /\ limits.descr[1][1] = "Range doesn't include outliers, capped by {sigmas} sigmas. avg={avg}, stddev={stddev}, min={min}, max={max}"
            /\ (capped_lo < true_min /\ capped_hi > true_max) =>
                  /\ limits.min_limit = Some(true_min)
                  /\ limits.max_limit = Some(true_max)
                  /\ limits.descr = Some(<<"Real min/max values were used">>)
            /\ (capped_lo < true_min /\ capped_hi <= true_max) =>
                  /\ limits.min_limit = Some(true_min)
                  /\ limits.max_limit = Some(rounded(capped_hi, "up"))
                  /\ limits.descr # None
                  /\ limits.descr[1][1] = "Real min value was used. Max was capped by {sigmas} sigmas. avg={avg}, stddev={stddev}, max={max}"
            /\ (capped_lo >= true_min /\ capped_hi > true_max) =>
                  /\ limits.min_limit = Some(rounded(capped_lo, "down"))
                  /\ limits.max_limit = Some(true_max)
                  /\ limits.descr # None
                  /\ limits.descr[1][1] = "Real max value was used. Min was capped by {sigmas} sigmas. avg={avg}, stddev={stddev}, min={min}"

\* the outlier column: the true minimum below and the capped value above
C23_Witness ==
    /\ Limited
    /\ Capped
    /\ profiled.values = OutlierColumn
    /\ profiled.typ = "IntegerType"
    /\ capped_lo < true_min
    /\ capped_hi < true_max
    /\ pret.limits[1].min_limit = Some(0)
    /\ pret.limits[1].max_limit = Some(3105 * Scale)

\* C28: a range rule proposed with outliers removed and k >= 0 is never
\* wider than the observed range: true min <= proposed min <= proposed
\* max <= true max, also after the rounding of an integer column.
C28_ProposedRangeWithinObserved ==
    (Profiled /\ Capped /\ k_used >= 0 /\ pret.rules[1] # <<>>) =>
        LET parameters == pret.rules[1][1].parameters
        IN  /\ true_min <= parameters.min
            /\ parameters.min <= parameters.max
            /\ parameters.max <= true_max

\* a rule for an integer column whose capped bounds are rounded
C28_Witness ==
    /\ Profiled
    /\ Capped
    /\ k_used >= 0
    /\ profiled.typ = "IntegerType"
    /\ pret.rules[1] # <<>>
    /\ pret.rules[1][1].parameters.min = floor(capped_lo)
    /\ pret.rules[1][1].parameters.min # capped_lo
    /\ pret.rules[1][1].parameters.max = ceil(capped_hi)
    /\ pret.rules[1][1].parameters.max # capped_hi

\* C29: with outliers removed, a capped interval that is not wider than
\* the true range on either side and touches it on at least one side
\* matches no branch: no description is set and no range rule is proposed.
C29_TouchingIntervalNoRule ==
    (/\ Capped
     /\ capped_lo >= true_min
     /\ capped_hi <= true_max
     /\ capped_lo = true_min \/ capped_hi = true_max) =>
        /\ Limited => pret.limits[1].descr = None
        /\ Profiled => pret.rules[1] = <<>>

\* a constant column of two values 4: stddev 0, the interval is 4..4
C29_Witness ==
    /\ Profiled
    /\ Capped
    /\ profiled.values = <<4, 4>>
    /\ capped_lo = true_min
    /\ capped_hi = true_max
    /\ mn_mx_given.stddev = Some(0)
    /\ pret.rules[1] = <<>>

\* ------------------------------------------------ checks in a local file
Saved == mpc = "save_checks_in_local_file"
Loaded == mpc = "load_checks_from_local_file"
filepath_given == mret.args[1]
\* the load reads the file that the save before it wrote
RoundTrip == Loaded /\ filepath_given # "" /\ files[filepath_given] # None

\* Python's == on lists and dicts: a dict is equal to one with the same
\* keys and equal values, whatever the order of insertion
RECURSIVE DeepEqual(_, _)
DeepEqual(x, y) ==
    IF type(x) # type(y) THEN FALSE
    ELSE IF type(x) = "dict"
    THEN /\ {x[2][i][1] : i \in 1..Len(x[2])} = {y[2][i][1] : i \in 1..Len(y[2])}
         /\ Len(x[2]) = Len(y[2])
         /\ \A i \in 1..Len(x[2]) : DeepEqual(x[2][i][2], getitem(y, x[2][i][1]))
    ELSE IF type(x) = "list"
    THEN /\ Len(x[2]) = Len(y[2])
         /\ \A i \in 1..Len(x[2]) : DeepEqual(x[2][i], y[2][i])
    ELSE x = y

EmptyPathFails ==
    ((Saved \/ Loaded) /\ filepath_given = "") =>
        /\ mret.raised = "ValueError: filepath must be provided"
        /\ mret.loaded = None
        /\ Saved => files = NoFiles

====
